---- MODULE Spec2Model ----
(***************************************************************************)
(* create-viant-app: the generation transaction of index.ts (main,         *)
(* getProjectOptions, ProjectGenerator.generate and its steps), the        *)
(* package.json builder (customizePackageJson and the add*Dependencies     *)
(* methods) and the cleanup routine of src/errorHandling.ts.               *)
(*                                                                         *)
(* The specifications share the variables and the operators:               *)
(*   Spec          one CLI invocation, from main() to process exit         *)
(*   SpecManifest  customizeFiles applied to every Selection the CLI       *)
(*                 can build, on every template manifest variant           *)
(*   SpecCleanup   cleanupProject applied repeatedly to directory trees    *)
(*   SpecFlags     customizeFiles on Selections with one more feature flag *)
(*   SpecErrors    wrapError applied to error messages                     *)
(*   SpecManagers  orderPackageManagers on sets of detected managers       *)
(*   SpecTemplates main() on every template name                           *)
(*   SpecStructure copyTemplateFiles on every template                     *)
(*   SpecInstall   installDependencies under every sequence of events      *)
(***************************************************************************)
EXTENDS Integers, Sequences, FiniteSets, TLC

VARIABLES
  pc,             \* position of main()/generate()
  argv,           \* the parsed command line (commander's projectName and options)
  opts,           \* ProjectOptions handed to the ProjectGenerator, NoOpts before
  tpl,            \* the template store entry for this run (environment)
  fs,             \* the tree at projectPath: relative path -> node; empty = path absent
  fs0,            \* the tree at projectPath when the process started
  manifest,       \* the packageJson object customizePackageJson serialised, NoManifest before
  written,        \* set of relative paths this run wrote or created
  error,          \* the error caught by generate(): [code, message, recoverable], NoError before
  failedAt,       \* the step whose failure reached generate()'s catch, "none" before
  warned,         \* set of steps whose failure was reported without throwing
  install,        \* the install promise: "none" | "pending" | "resolved" | "rejected"
  cleanupResult,  \* the last CleanupResult, NoResult before
  cleanupCalls,   \* number of cleanupProject calls so far
  rmOutcome,      \* what rmSync did in the last cleanupProject call
  log,            \* set of console message kinds printed so far
  exitCode,       \* process exit status, -1 while running
  detected,       \* detectPackageManagers(): [available, ordered], NoDetection before
  ctx,            \* the context argument of the wrapError call, NoArg when there is none
  events          \* the events the install child process has emitted so far

vars == <<pc, argv, opts, tpl, fs, fs0, manifest, written, error, failedAt,
          warned, install, cleanupResult, cleanupCalls, rmOutcome, log, exitCode,
          detected, ctx, events>>

(***************************************************************************)
(* Bounds                                                                  *)
(***************************************************************************)
MaxFeatures == 1     \* feature flags ticked in one multiselect answer
MaxDepth == 2        \* nesting depth of a directory tree handed to cleanup
MaxFiles == 2        \* files per directory of such a tree
MaxCalls == 3        \* cleanupProject calls in one SpecCleanup behaviour
MaxEvents == 4       \* events the install child process emits in one behaviour

(***************************************************************************)
(* JavaScript values and JSON text                                         *)
(***************************************************************************)
Undefined == [t |-> "undefined"]
Str(s) == [t |-> "string", s |-> s]
Num(s) == [t |-> "number", s |-> s]
Bool(b) == [t |-> "boolean", s |-> IF b THEN "true" ELSE "false"]
Obj(f) == [t |-> "object", f |-> f]
EmptyObj == Obj(<<>>)

IsString(v) == v.t = "string"
IsObject(v) == v.t = "object"
\* JavaScript truthiness of the values above
Truthy(v) == CASE v.t = "undefined" -> FALSE
               [] v.t = "string" -> v.s # ""
               [] v.t = "number" -> v.s # "0"
               [] v.t = "boolean" -> v.s = "true"
               [] OTHER -> TRUE
\* a || b
OrElse(a, b) == IF Truthy(a) THEN a ELSE b

\* obj[key], undefined for a missing key
Get(o, k) == IF k \in DOMAIN o.f THEN o.f[k] ELSE Undefined
\* obj[key] = value
Put(o, k, v) == Obj([x \in DOMAIN o.f \cup {k} |-> IF x = k THEN v ELSE o.f[x]])

RECURSIVE SetToSeq(_)
SetToSeq(S) == IF S = {} THEN <<>>
               ELSE LET x == CHOOSE y \in S : TRUE IN <<x>> \o SetToSeq(S \ {x})

\* JSON.stringify of a leaf value: strings and numbers are kept, a nested
\* object becomes its member list, members holding undefined are left out
RECURSIVE Members(_, _)
Members(f, keys) ==
  IF keys = <<>> THEN <<>>
  ELSE LET k == Head(keys) v == f[k] IN
       (IF v.t = "undefined" THEN <<>>
        ELSE IF v.t = "object"
             THEN <<[k |-> k, j |-> "object", s |-> "", m |-> Members(v.f, SetToSeq(DOMAIN v.f))]>>
             ELSE <<[k |-> k, j |-> v.t, s |-> v.s, m |-> <<>>]>>)
       \o Members(f, Tail(keys))

\* JSON.stringify(value, null, 2): the text of an object
JSONstringify(o) == [valid |-> TRUE, members |-> Members(o.f, SetToSeq(DOMAIN o.f))]

\* text that JSON.parse rejects
MalformedText == [valid |-> FALSE, members |-> <<>>]

RECURSIVE ParseMembers(_)
ParseMembers(ms) ==
  IF ms = <<>> THEN EmptyObj
  ELSE LET n == Len(ms)
           m == ms[n]
           rest == ParseMembers(SubSeq(ms, 1, n - 1))
           v == IF m.j = "object" THEN ParseMembers(m.m)
                ELSE [t |-> m.j, s |-> m.s]
       IN Put(rest, m.k, v)

\* JSON.parse(text): the object, or SyntaxError
SyntaxError == [t |-> "SyntaxError"]
JSONparse(text) == IF text.valid THEN ParseMembers(text.members) ELSE SyntaxError

(***************************************************************************)
(* The file system below projectPath                                       *)
(***************************************************************************)
Root == <<>>
DirNode == [kind |-> "dir", text |-> MalformedText, tag |-> ""]
\* a file whose content the model does not look into, named by a tag
FileNode(tag) == [kind |-> "file", text |-> MalformedText, tag |-> tag]
\* a file holding JSON text
JsonNode(text) == [kind |-> "file", text |-> text, tag |-> "json"]

NoDir == <<>>
existsSync(tree, p) == p \in DOMAIN tree
\* tree with the nodes of add written over it
Overlay(tree, add) ==
  [p \in DOMAIN tree \cup DOMAIN add |-> IF p \in DOMAIN add THEN add[p] ELSE tree[p]]
Restrict(tree, S) == [p \in S |-> tree[p]]
\* rmSync(path) of one file
Remove(tree, p) == Restrict(tree, DOMAIN tree \ {p})

\* the chain subdir-0/subdir-1/.../subdir-(d-1)
RECURSIVE SubdirPath(_)
SubdirPath(d) == IF d = 0 THEN <<>> ELSE Append(SubdirPath(d - 1), "subdir-" \o ToString(d - 1))

Min(a, b) == IF a < b THEN a ELSE b

\* a directory with fileCount files and a chain of depth nested directories
ProjectTree(fileCount, depth) ==
  LET dirs == {SubdirPath(d) : d \in 0..depth}
      rootFiles == {<<"file-" \o ToString(i) \o ".txt">> : i \in 0..(fileCount - 1)}
      nested == {Append(SubdirPath(d), "nested-file-" \o ToString(i) \o ".txt") :
                   d \in 1..depth, i \in 0..(Min(fileCount, 3) - 1)}
  IN [p \in dirs \cup rootFiles \cup nested |->
        IF p \in dirs THEN DirNode ELSE FileNode("content")]

Trees == {ProjectTree(n, d) : n \in 0..MaxFiles, d \in 0..MaxDepth}

(***************************************************************************)
(* cleanupProject (src/errorHandling.ts)                                   *)
(***************************************************************************)
NoResult == [success |-> FALSE, existed |-> FALSE, error |-> "<no call>"]
NoErrorText == "<undefined>"

\* what rmSync(projectPath, {recursive, force}) can do to an existing tree:
\* remove it all, throw after removing everything below some depth, or
\* return although the path is still there
RmErrors == {"EACCES: permission denied, rmdir", "EBUSY: resource busy or locked, rmdir"}
RmOutcomes(tree) ==
  {[kind |-> "removed", message |-> "", after |-> NoDir]}
  \cup {[kind |-> "throws", message |-> m,
         after |-> Restrict(tree, {p \in DOMAIN tree : Len(p) <= k})] :
           m \in RmErrors, k \in {0, MaxDepth + 1}}
  \cup {[kind |-> "kept", message |-> "", after |-> tree]}

\* faulty variant: cleanupProject without the existsSync test before removal
cleanupProjectAssumesExists(tree, rm) ==
  IF rm.kind = "throws"
  THEN [result |-> [success |-> FALSE, existed |-> TRUE, error |-> rm.message],
        after |-> rm.after]
  ELSE [result |-> [success |-> ~existsSync(rm.after, Root), existed |-> TRUE,
                    error |-> IF existsSync(rm.after, Root)
                              THEN "Directory still exists after cleanup attempt"
                              ELSE NoErrorText],
        after |-> IF existsSync(tree, Root) THEN rm.after ELSE tree]

\* faulty variant: cleanupProject without the existsSync test after removal
cleanupProjectUnverified(tree, rm) ==
  IF ~existsSync(tree, Root)
  THEN [result |-> [success |-> TRUE, existed |-> FALSE, error |-> NoErrorText],
        after |-> tree]
  ELSE IF rm.kind = "throws"
  THEN [result |-> [success |-> FALSE, existed |-> TRUE, error |-> rm.message],
        after |-> rm.after]
  ELSE [result |-> [success |-> TRUE, existed |-> TRUE, error |-> NoErrorText],
        after |-> rm.after]

\* the CleanupResult and the tree afterwards, given what rmSync does
cleanupProject(tree, rm) ==
  LET existed == existsSync(tree, Root) IN
  IF ~existed
  THEN [result |-> [success |-> TRUE, existed |-> FALSE, error |-> NoErrorText],
        after |-> tree]
  ELSE IF rm.kind = "throws"
  THEN [result |-> [success |-> FALSE, existed |-> TRUE, error |-> rm.message],
        after |-> rm.after]
  ELSE LET stillExists == existsSync(rm.after, Root) IN
       [result |-> [success |-> ~stillExists, existed |-> TRUE,
                    error |-> IF stillExists
                              THEN "Directory still exists after cleanup attempt"
                              ELSE NoErrorText],
        after |-> rm.after]

(***************************************************************************)
(* Strings                                                                 *)
(***************************************************************************)
CharAt(s, i) == SubSeq(s, i, i)
\* s.includes(sub)
Includes(s, sub) ==
  \E i \in 1..(Len(s) - Len(sub) + 1) : SubSeq(s, i, i + Len(sub) - 1) = sub
\* s.split('-')[0]
FirstSegment(s) ==
  IF \E i \in 1..Len(s) : CharAt(s, i) = "-"
  THEN LET i == CHOOSE j \in 1..Len(s) :
                  CharAt(s, j) = "-" /\ \A k \in 1..(j - 1) : CharAt(s, k) # "-"
       IN SubSeq(s, 1, i - 1)
  ELSE s
\* s.trim() === ''
IsBlank(s) == \A i \in 1..Len(s) : CharAt(s, i) = " "

LowerChars == {"a","b","c","d","e","f","g","h","i","j","k","l","m","n","o","p","q",
               "r","s","t","u","v","w","x","y","z"}
UpperChars == {"A","B","C","D","E","F","G","H","I","J","K","L","M","N","O","P","Q",
               "R","S","T","U","V","W","X","Y","Z"}
DigitChars == {"0","1","2","3","4","5","6","7","8","9"}
\* characters encodeURIComponent leaves alone
UrlFriendlyChars == LowerChars \cup UpperChars \cup DigitChars
                      \cup {"-", "_", ".", "!", "~", "*", "'", "(", ")"}
SpecialChars == {"~", "'", "!", "(", ")", "*"}

(***************************************************************************)
(* Project name validation (index.ts validateName, on the rules of         *)
(* validate-npm-package-name)                                              *)
(***************************************************************************)
\* the errors and warnings of validate-npm-package-name for a string
validateProjectName(name) ==
  {r \in {"length", "leading-dot", "leading-underscore", "spaces",
          "capital-letters", "special-characters", "url-friendly"} :
     CASE r = "length" -> Len(name) = 0
       [] r = "leading-dot" -> Len(name) > 0 /\ CharAt(name, 1) = "."
       [] r = "leading-underscore" -> Len(name) > 0 /\ CharAt(name, 1) = "_"
       [] r = "spaces" -> Len(name) > 0 /\ (CharAt(name, 1) = " " \/ CharAt(name, Len(name)) = " ")
       [] r = "capital-letters" -> \E i \in 1..Len(name) : CharAt(name, i) \in UpperChars
       [] r = "special-characters" -> \E i \in 1..Len(name) : CharAt(name, i) \in SpecialChars
       [] r = "url-friendly" -> \E i \in 1..Len(name) : CharAt(name, i) \notin UrlFriendlyChars}

\* validateName(name) = true
validateName(name) == name # "" /\ validateProjectName(name) = {}

(***************************************************************************)
(* Command line and prompts (index.ts main, getProjectOptions)             *)
(***************************************************************************)
NoArg == "<undefined>"
NoChoice == "<undefined>"
\* JavaScript truthiness of an optional string
Given(s) == s # NoArg /\ s # ""

Frameworks == {"react", "vue", "svelte", "solid", "preact", "vanilla"}
templates == {"react-ts", "react-js", "preact-ts", "preact-js", "vue-ts", "vue-js",
              "svelte-ts", "svelte-js", "solid-ts", "solid-js", "vanilla-ts", "vanilla-js"}
stylingOptions == {"tailwind", "styled-components", "emotion", "css-modules", "sass",
                   "less", "stylus", "vanilla-extract", "unocss", "none"}
featureOptions == {"pwa", "analyzer", "github-actions", "docker", "storybook", "husky",
                   "vitest", "playwright", "linting", "strict-ts", "component-lib", "i18n",
                   "state-management", "api-client"}
PACKAGE_MANAGER_ORDER == <<"bun", "pnpm", "yarn", "npm">>

\* faulty variant: orderPackageManagers without the npm fallback
orderPackageManagersNoFallback(available) ==
  SelectSeq(PACKAGE_MANAGER_ORDER, LAMBDA pm : pm \in available)

\* orderPackageManagers(available)
orderPackageManagers(available) ==
  LET kept == SelectSeq(PACKAGE_MANAGER_ORDER, LAMBDA m : m \in available)
  IN IF kept = <<>> THEN <<"npm">> ELSE kept

\* the styling choices the prompt offers for a framework
StylingChoices(framework) ==
  IF framework \in {"react", "preact"} THEN stylingOptions
  ELSE stylingOptions \ {"styled-components"}

\* the state management choices the prompt offers for a framework
StateManagementChoices(framework) ==
  CASE framework = "react" -> {"redux-toolkit", "zustand", "jotai", "valtio"}
    [] framework = "vue" -> {"pinia", "vuex"}
    [] framework = "svelte" -> {"svelte-stores", "zustand"}
    [] framework = "solid" -> {"solid-store", "zustand"}
    [] framework = "preact" -> {"zustand", "valtio"}
    [] OTHER -> {"none"}
ApiClientChoices == {"axios", "tanstack-query", "swr", "trpc", "fetch"}

TemplateName(framework, typescript) == framework \o "-" \o (IF typescript THEN "ts" ELSE "js")

NoOpts == [name |-> "", template |-> "", framework |-> "", styling |-> "",
           packageManager |-> "", features |-> {}, installDeps |-> FALSE,
           initGit |-> FALSE, typescript |-> FALSE, runDev |-> FALSE,
           stateManagement |-> NoChoice, apiClient |-> NoChoice]

\* faulty variant: the non-interactive branch taking the -ts suffix as part of
\* every template name
OptionsFromFlagsAlwaysTyped(a) ==
  [name |-> a.projectName, template |-> a.template,
   framework |-> FirstSegment(a.template), styling |-> a.styling,
   packageManager |-> a.packageManager, features |-> {},
   installDeps |-> ~a.skipInstall, initGit |-> ~a.skipGit,
   typescript |-> Includes(a.template, "-"), runDev |-> ~a.skipDev,
   stateManagement |-> NoChoice, apiClient |-> NoChoice]

\* the non-interactive branch of main(): ProjectOptions from the flags
OptionsFromFlags(a) ==
  [name |-> a.projectName, template |-> a.template,
   framework |-> FirstSegment(a.template), styling |-> a.styling,
   packageManager |-> a.packageManager, features |-> {},
   installDeps |-> ~a.skipInstall, initGit |-> ~a.skipGit,
   typescript |-> Includes(a.template, "-ts"), runDev |-> ~a.skipDev,
   stateManagement |-> NoChoice, apiClient |-> NoChoice]

\* the answers prompts can return for the questions of getProjectOptions,
\* apart from the name, over the given feature flags, frameworks, stylings,
\* detected package managers and confirm answers B
Answers(F, frameworks, stylings, managers, B) ==
  UNION {
    UNION {
      {[framework |-> fw, typescript |-> ts, styling |-> st, packageManager |-> pm,
        features |-> chosen, installDeps |-> i, initGit |-> g, runDev |-> d,
        stateManagement |-> sm, apiClient |-> api] :
          ts \in BOOLEAN, pm \in managers, i \in B, g \in B, d \in B,
          st \in stylings \cap StylingChoices(fw),
          sm \in (IF "state-management" \in chosen
                  THEN StateManagementChoices(fw) ELSE {NoChoice}),
          api \in (IF "api-client" \in chosen THEN ApiClientChoices ELSE {NoChoice})} :
        chosen \in {S \in SUBSET F : Cardinality(S) <= MaxFeatures}} :
      fw \in frameworks}

\* faulty variant: getProjectOptions filling in a state management library
\* when the question was not asked
OptionsFromAnswersDefaultStore(projectName, typed, r) ==
  [name |-> IF Given(projectName) THEN projectName ELSE typed,
   template |-> TemplateName(r.framework, r.typescript),
   framework |-> r.framework, styling |-> r.styling,
   packageManager |-> r.packageManager, features |-> r.features,
   installDeps |-> r.installDeps, initGit |-> r.initGit,
   typescript |-> r.typescript, runDev |-> r.runDev,
   stateManagement |-> IF Given(r.stateManagement) THEN r.stateManagement ELSE "zustand",
   apiClient |-> r.apiClient]

\* the return value of getProjectOptions(projectName) for a typed name and answers
OptionsFromAnswers(projectName, typed, r) ==
  [name |-> IF Given(projectName) THEN projectName ELSE typed,
   template |-> TemplateName(r.framework, r.typescript),
   framework |-> r.framework, styling |-> r.styling,
   packageManager |-> r.packageManager, features |-> r.features,
   installDeps |-> r.installDeps, initGit |-> r.initGit,
   typescript |-> r.typescript, runDev |-> r.runDev,
   stateManagement |-> r.stateManagement, apiClient |-> r.apiClient]

(***************************************************************************)
(* Error taxonomy (src/errorHandling.ts)                                   *)
(***************************************************************************)
ERROR_CODES == {"INVALID_NAME", "DIR_EXISTS", "TEMPLATE_NOT_FOUND", "COPY_FAILED",
                "INSTALL_FAILED", "GIT_FAILED", "PACKAGE_JSON_INVALID", "CONFIG_FAILED",
                "PERMISSION_DENIED", "DISK_FULL", "UNKNOWN"}

ERROR_MESSAGES ==
  [c \in ERROR_CODES |->
     CASE c = "INVALID_NAME" -> "The project name is invalid. Please use a valid npm package name."
       [] c = "DIR_EXISTS" -> "A directory with this name already exists. Please choose a different name or remove the existing directory."
       [] c = "TEMPLATE_NOT_FOUND" -> "The specified template could not be found. Please check the template name."
       [] c = "COPY_FAILED" -> "Failed to copy template files. Please check file permissions and disk space."
       [] c = "INSTALL_FAILED" -> "Failed to install dependencies. Please try running the install command manually."
       [] c = "GIT_FAILED" -> "Failed to initialize git repository. Please ensure git is installed and configured."
       [] c = "PACKAGE_JSON_INVALID" -> "Failed to generate a valid package.json file."
       [] c = "CONFIG_FAILED" -> "Failed to generate configuration files."
       [] c = "PERMISSION_DENIED" -> "Permission denied. Please check your file system permissions."
       [] c = "DISK_FULL" -> "Disk is full. Please free up some space and try again."
       [] OTHER -> "An unexpected error occurred."]

getErrorMessage(code) ==
  IF code \in ERROR_CODES THEN ERROR_MESSAGES[code] ELSE ERROR_MESSAGES["UNKNOWN"]

\* new Error(message)
PlainError(message) ==
  [class |-> "Error", message |-> message, code |-> "", recoverable |-> FALSE,
   hint |-> "", cause |-> ""]
\* new ProjectGenerationError(message, code, {recoverable, hint, cause})
ProjectGenerationError(message, code, recoverable, hint, cause) ==
  [class |-> "ProjectGenerationError", message |-> message, code |-> code,
   recoverable |-> recoverable, hint |-> hint, cause |-> cause]
NoError == [class |-> "none", message |-> "", code |-> "", recoverable |-> FALSE,
            hint |-> "", cause |-> ""]

UpperSeq == <<"A","B","C","D","E","F","G","H","I","J","K","L","M","N","O","P","Q",
              "R","S","T","U","V","W","X","Y","Z">>
LowerSeq == <<"a","b","c","d","e","f","g","h","i","j","k","l","m","n","o","p","q",
              "r","s","t","u","v","w","x","y","z">>
LowerChar(c) ==
  IF c \in UpperChars
  THEN LowerSeq[CHOOSE i \in DOMAIN UpperSeq : UpperSeq[i] = c]
  ELSE c
\* s.toLowerCase()
RECURSIVE toLowerCase(_)
toLowerCase(s) ==
  IF Len(s) = 0 THEN s
  ELSE LowerChar(CharAt(s, 1)) \o toLowerCase(SubSeq(s, 2, Len(s)))

\* faulty variant: categorizeError matching the message as written
categorizeErrorCaseSensitive(msg) ==
  LET message == msg IN
  IF Includes(message, "eexist") \/ Includes(message, "already exists") THEN "DIR_EXISTS"
  ELSE IF Includes(message, "enoent") \/ Includes(message, "not found")
          \/ Includes(message, "no such file") THEN "TEMPLATE_NOT_FOUND"
  ELSE IF Includes(message, "eacces") \/ Includes(message, "permission denied")
       THEN "PERMISSION_DENIED"
  ELSE IF Includes(message, "enospc") \/ Includes(message, "no space left")
          \/ Includes(message, "disk full") THEN "DISK_FULL"
  ELSE IF Includes(message, "copy") \/ Includes(message, "failed to copy") THEN "COPY_FAILED"
  ELSE IF Includes(message, "install") \/ Includes(message, "npm")
          \/ Includes(message, "yarn") \/ Includes(message, "pnpm") THEN "INSTALL_FAILED"
  ELSE IF Includes(message, "git") THEN "GIT_FAILED"
  ELSE IF Includes(message, "package.json") \/ Includes(message, "json")
       THEN "PACKAGE_JSON_INVALID"
  ELSE IF Includes(message, "config") \/ Includes(message, "configuration")
       THEN "CONFIG_FAILED"
  ELSE "UNKNOWN"

\* faulty variant: categorizeError testing the git substring before the
\* copy and the install substrings
categorizeErrorGitFirst(msg) ==
  LET message == toLowerCase(msg) IN
  IF Includes(message, "eexist") \/ Includes(message, "already exists") THEN "DIR_EXISTS"
  ELSE IF Includes(message, "enoent") \/ Includes(message, "not found")
          \/ Includes(message, "no such file") THEN "TEMPLATE_NOT_FOUND"
  ELSE IF Includes(message, "eacces") \/ Includes(message, "permission denied")
       THEN "PERMISSION_DENIED"
  ELSE IF Includes(message, "enospc") \/ Includes(message, "no space left")
          \/ Includes(message, "disk full") THEN "DISK_FULL"
  ELSE IF Includes(message, "git") THEN "GIT_FAILED"
  ELSE IF Includes(message, "copy") \/ Includes(message, "failed to copy") THEN "COPY_FAILED"
  ELSE IF Includes(message, "install") \/ Includes(message, "npm")
          \/ Includes(message, "yarn") \/ Includes(message, "pnpm") THEN "INSTALL_FAILED"
  ELSE IF Includes(message, "package.json") \/ Includes(message, "json")
       THEN "PACKAGE_JSON_INVALID"
  ELSE IF Includes(message, "config") \/ Includes(message, "configuration")
       THEN "CONFIG_FAILED"
  ELSE "UNKNOWN"

\* categorizeError(error), on the error's message
categorizeError(msg) ==
  LET message == toLowerCase(msg) IN
  IF Includes(message, "eexist") \/ Includes(message, "already exists") THEN "DIR_EXISTS"
  ELSE IF Includes(message, "enoent") \/ Includes(message, "not found")
          \/ Includes(message, "no such file") THEN "TEMPLATE_NOT_FOUND"
  ELSE IF Includes(message, "eacces") \/ Includes(message, "permission denied")
       THEN "PERMISSION_DENIED"
  ELSE IF Includes(message, "enospc") \/ Includes(message, "no space left")
          \/ Includes(message, "disk full") THEN "DISK_FULL"
  ELSE IF Includes(message, "copy") \/ Includes(message, "failed to copy") THEN "COPY_FAILED"
  ELSE IF Includes(message, "install") \/ Includes(message, "npm")
          \/ Includes(message, "yarn") \/ Includes(message, "pnpm") THEN "INSTALL_FAILED"
  ELSE IF Includes(message, "git") THEN "GIT_FAILED"
  ELSE IF Includes(message, "package.json") \/ Includes(message, "json")
       THEN "PACKAGE_JSON_INVALID"
  ELSE IF Includes(message, "config") \/ Includes(message, "configuration")
       THEN "CONFIG_FAILED"
  ELSE "UNKNOWN"

\* faulty variant: wrapError taking every categorised error as recoverable
wrapErrorRecoverableWhenKnown(e, context) ==
  LET code == categorizeError(e.message) IN
  ProjectGenerationError(
    IF Given(context) THEN context \o ": " \o e.message ELSE e.message,
    code, code # "UNKNOWN", getErrorMessage(code), e.message)

\* wrapError(error, context); context NoArg stands for an omitted context
wrapError(e, context) ==
  LET code == categorizeError(e.message) IN
  ProjectGenerationError(
    IF Given(context) THEN context \o ": " \o e.message ELSE e.message,
    code, code \in {"INSTALL_FAILED", "GIT_FAILED"}, getErrorMessage(code), e.message)

(***************************************************************************)
(* Version Registry (src/versions.ts)                                      *)
(***************************************************************************)
\* the range the registry holds for a logical key
VersionsTable ==
  [react |-> "^19.0.0", reactDom |-> "^19.0.0", vue |-> "^3.5.13",
   svelte |-> "^5.16.0", solid |-> "^1.9.4", preact |-> "^10.25.4", vite |-> "^6.0.7",
   typescript |-> "^5.7.2", vitePluginReact |-> "^4.3.4",
   vitePluginReactSWC |-> "^3.7.2", vitePluginVue |-> "^5.2.1",
   vitePluginSvelte |-> "^5.0.3", vitePluginSolid |-> "^2.11.0",
   preactPresetVite |-> "^2.9.4", vitePluginPWA |-> "^0.21.1",
   tailwindcss |-> "^4.0.0", unocss |-> "^0.65.3", vanillaExtract |-> "^1.16.1",
   vanillaExtractVitePlugin |-> "^3.9.0", sass |-> "^1.83.1",
   styledComponents |-> "^6.1.14", emotion |-> "^11.14.0",
   emotionStyled |-> "^11.14.0", autoprefixer |-> "^10.4.20", postcss |-> "^8.4.49",
   vitest |-> "^3.0.2", vitestUi |-> "^3.0.2", playwright |-> "^1.49.1",
   testingLibraryReact |-> "^16.2.0", biome |-> "^1.9.4", reduxToolkit |-> "^2.5.0",
   reactRedux |-> "^9.2.0", zustand |-> "^5.0.2", jotai |-> "^2.11.0",
   pinia |-> "^2.3.0", valtio |-> "^2.1.2", tanstackQuery |-> "^5.64.1",
   tanstackQueryDevtools |-> "^5.64.1", swr |-> "^2.3.0", axios |-> "^1.7.9",
   husky |-> "^9.1.7", lintStaged |-> "^15.3.0", storybook |-> "^8.5.0",
   typesReact |-> "^19.0.2", typesReactDom |-> "^19.0.2", typesNode |-> "^22.10.2",
   vueTsc |-> "^2.2.0", tsconfigSvelte |-> "^5.0.4", tslib |-> "^2.8.1",
   svelteCheck |-> "^4.1.1", rollupPluginVisualizer |-> "^5.14.0",
   reactI18next |-> "^15.1.3", i18next |-> "^24.2.0", vueI18n |-> "^10.0.5"]

\* VERSIONS[key]
VERSIONS(key) == VersionsTable[key]

(***************************************************************************)
(* The package.json builder (index.ts customizePackageJson and helpers)    *)
(***************************************************************************)
\* a thrown exception travelling through the builder
Thrown(message) == [t |-> "throw", s |-> message]
IsThrown(v) == v.t = "throw"

\* pkg[field] = pkg[field] || {}
DefaultObject(pkg, field) ==
  IF IsThrown(pkg) THEN pkg ELSE Put(pkg, field, OrElse(Get(pkg, field), EmptyObj))

\* faulty variant: an assignment that leaves an entry the section already has
SetInKeepsExisting(pkg, section, key, value) ==
  IF IsThrown(pkg) THEN pkg
  ELSE LET sec == Get(pkg, section) IN
       IF IsObject(sec)
       THEN (IF Get(sec, key) # Undefined THEN pkg
             ELSE Put(pkg, section, Put(sec, key, Str(value))))
       ELSE Thrown("Cannot create property '" \o key \o "' on " \o sec.t)

\* pkg[section][key] = value, in strict mode: a TypeError when pkg[section]
\* is a primitive
SetIn(pkg, section, key, value) ==
  IF IsThrown(pkg) THEN pkg
  ELSE LET sec == Get(pkg, section) IN
       IF IsObject(sec) THEN Put(pkg, section, Put(sec, key, Str(value)))
       ELSE Thrown("Cannot create property '" \o key \o "' on " \o sec.t)

dep(key, value) == [section |-> "dependencies", key |-> key, value |-> value]
dev(key, value) == [section |-> "devDependencies", key |-> key, value |-> value]
script(key, value) == [section |-> "scripts", key |-> key, value |-> value]
When(c, assignments) == IF c THEN assignments ELSE <<>>

\* the assignments of a method, performed in order
RECURSIVE Perform(_, _)
Perform(pkg, assignments) ==
  IF assignments = <<>> \/ IsThrown(pkg) THEN pkg
  ELSE LET a == Head(assignments)
       IN Perform(SetIn(pkg, a.section, a.key, a.value), Tail(assignments))

StylingAssignments(o) ==
  When(o.typescript, <<dev("ts-node", "^10.9.1")>>) \o
  (CASE o.styling = "tailwind" ->
          <<dep("clsx", "^2.0.0"), dev("tailwindcss", VERSIONS("tailwindcss"))>>
     [] o.styling = "styled-components" ->
          <<dep("styled-components", VERSIONS("styledComponents"))>> \o
          When(o.typescript, <<dev("@types/styled-components", "^5.1.32")>>)
     [] o.styling = "emotion" ->
          <<dep("@emotion/react", VERSIONS("emotion")),
            dep("@emotion/styled", VERSIONS("emotionStyled"))>> \o
          When(o.framework = "react", <<dev("@emotion/babel-plugin", "^11.11.0")>>)
     [] o.styling = "sass" -> <<dev("sass", VERSIONS("sass"))>>
     [] o.styling = "less" -> <<dev("less", "^4.2.0")>>
     [] o.styling = "stylus" -> <<dev("stylus", "^0.62.0")>>
     [] o.styling = "vanilla-extract" ->
          <<dev("@vanilla-extract/css", VERSIONS("vanillaExtract")),
            dev("@vanilla-extract/vite-plugin", VERSIONS("vanillaExtractVitePlugin"))>>
     [] o.styling = "unocss" ->
          <<dev("unocss", VERSIONS("unocss")), dev("@unocss/reset", VERSIONS("unocss"))>>
     [] OTHER -> <<>>)

addStylingDependencies(o, pkg) ==
  Perform(DefaultObject(DefaultObject(pkg, "devDependencies"), "dependencies"),
          StylingAssignments(o))

FrameworkAssignments(o) ==
  CASE o.framework = "react" ->
         <<dep("react", VERSIONS("react")), dep("react-dom", VERSIONS("reactDom")),
           dev("@vitejs/plugin-react-swc", VERSIONS("vitePluginReactSWC"))>> \o
         When(o.typescript, <<dev("@types/react", VERSIONS("typesReact")),
                              dev("@types/react-dom", VERSIONS("typesReactDom"))>>)
    [] o.framework = "preact" ->
         <<dep("preact", VERSIONS("preact")),
           dev("@preact/preset-vite", VERSIONS("preactPresetVite"))>> \o
         When(o.typescript, <<dev("@types/node", VERSIONS("typesNode"))>>)
    [] o.framework = "vue" ->
         <<dep("vue", VERSIONS("vue")), dev("@vitejs/plugin-vue", VERSIONS("vitePluginVue"))>> \o
         When(o.typescript, <<dev("vue-tsc", VERSIONS("vueTsc"))>>)
    [] o.framework = "svelte" ->
         <<dep("svelte", VERSIONS("svelte")),
           dev("@sveltejs/vite-plugin-svelte", VERSIONS("vitePluginSvelte"))>> \o
         When(o.typescript, <<dev("@tsconfig/svelte", VERSIONS("tsconfigSvelte")),
                              dev("tslib", VERSIONS("tslib")),
                              dev("svelte-check", VERSIONS("svelteCheck"))>>)
    [] o.framework = "solid" ->
         <<dep("solid-js", VERSIONS("solid")),
           dev("vite-plugin-solid", VERSIONS("vitePluginSolid"))>> \o
         When(o.typescript, <<dev("@types/node", VERSIONS("typesNode"))>>)
    [] OTHER -> <<>>

addFrameworkDependencies(o, pkg) == Perform(pkg, FrameworkAssignments(o))

getStorybookFramework(o) ==
  CASE o.framework = "react" -> "react"
    [] o.framework = "preact" -> "preact"
    [] o.framework = "vue" -> "vue3"
    [] o.framework = "svelte" -> "svelte"
    [] o.framework = "solid" -> "solid"
    [] OTHER -> "react"

I18nAssignments(o) ==
  CASE o.framework \in {"react", "preact"} ->
         <<dep("react-i18next", VERSIONS("reactI18next")), dep("i18next", VERSIONS("i18next"))>>
    [] o.framework = "vue" -> <<dep("vue-i18n", VERSIONS("vueI18n"))>>
    [] o.framework = "svelte" -> <<dep("svelte-i18n", "^4.0.1")>>
    [] o.framework = "solid" -> <<dep("@solid-primitives/i18n", "^2.1.1")>>
    [] OTHER -> <<>>

addI18nDependencies(o, pkg) == Perform(pkg, I18nAssignments(o))

StateManagementAssignments(o) ==
  CASE o.stateManagement = "redux-toolkit" ->
         <<dep("@reduxjs/toolkit", VERSIONS("reduxToolkit")),
           dep("react-redux", VERSIONS("reactRedux"))>>
    [] o.stateManagement = "zustand" -> <<dep("zustand", VERSIONS("zustand"))>>
    [] o.stateManagement = "jotai" -> <<dep("jotai", VERSIONS("jotai"))>>
    [] o.stateManagement = "valtio" -> <<dep("valtio", VERSIONS("valtio"))>>
    [] o.stateManagement = "pinia" -> <<dep("pinia", VERSIONS("pinia"))>>
    [] o.stateManagement = "vuex" -> <<dep("vuex", "^4.1.0")>>
    [] OTHER -> <<>>

addStateManagementDependencies(o, pkg) == Perform(pkg, StateManagementAssignments(o))

ApiClientAssignments(o) ==
  CASE o.apiClient = "axios" -> <<dep("axios", VERSIONS("axios"))>>
    [] o.apiClient = "tanstack-query" ->
         <<dep("@tanstack/react-query", VERSIONS("tanstackQuery")),
           dev("@tanstack/react-query-devtools", VERSIONS("tanstackQueryDevtools"))>>
    [] o.apiClient = "swr" -> <<dep("swr", VERSIONS("swr"))>>
    [] o.apiClient = "trpc" ->
         <<dep("@trpc/client", "^10.45.0"), dep("@trpc/server", "^10.45.0")>> \o
         When(o.framework = "react", <<dep("@trpc/react-query", "^10.45.0")>>)
    [] OTHER -> <<>>

addApiClientDependencies(o, pkg) == Perform(pkg, ApiClientAssignments(o))

\* faulty variant: the husky block adding lint-staged only next to linting
FeatureAssignmentsCoupled(o) ==
  When("pwa" \in o.features, <<dev("vite-plugin-pwa", VERSIONS("vitePluginPWA"))>>) \o
  When("analyzer" \in o.features,
       <<dev("rollup-plugin-visualizer", VERSIONS("rollupPluginVisualizer")),
         script("analyze", "vite build --mode analyze")>>) \o
  When("vitest" \in o.features,
       <<dev("vitest", VERSIONS("vitest")), dev("@vitest/ui", VERSIONS("vitestUi")),
         script("test", "vitest"), script("test:ui", "vitest --ui")>>) \o
  When("playwright" \in o.features,
       <<dev("@playwright/test", VERSIONS("playwright")),
         script("test:e2e", "playwright test")>>) \o
  When("linting" \in o.features,
       <<dev("@biomejs/biome", VERSIONS("biome")), script("lint", "biome lint ."),
         script("lint:fix", "biome lint --write ."),
         script("format", "biome format --write .")>>) \o
  When("storybook" \in o.features,
       <<dev("@storybook/" \o getStorybookFramework(o), VERSIONS("storybook")),
         dev("@storybook/" \o getStorybookFramework(o) \o "-vite", VERSIONS("storybook")),
         dev("@storybook/addon-essentials", VERSIONS("storybook")),
         script("storybook", "storybook dev -p 6006"),
         script("build-storybook", "storybook build")>>) \o
  When("husky" \in o.features,
       <<dev("husky", VERSIONS("husky")), script("prepare", "husky install")>> \o
       When("linting" \in o.features, <<dev("lint-staged", VERSIONS("lintStaged"))>>))

\* the assignments of the feature blocks of addFeatureDependencies, in
\* source order, from pwa to husky
FeatureAssignments(o) ==
  When("pwa" \in o.features, <<dev("vite-plugin-pwa", VERSIONS("vitePluginPWA"))>>) \o
  When("analyzer" \in o.features,
       <<dev("rollup-plugin-visualizer", VERSIONS("rollupPluginVisualizer")),
         script("analyze", "vite build --mode analyze")>>) \o
  When("vitest" \in o.features,
       <<dev("vitest", VERSIONS("vitest")), dev("@vitest/ui", VERSIONS("vitestUi")),
         script("test", "vitest"), script("test:ui", "vitest --ui")>>) \o
  When("playwright" \in o.features,
       <<dev("@playwright/test", VERSIONS("playwright")),
         script("test:e2e", "playwright test")>>) \o
  When("linting" \in o.features,
       <<dev("@biomejs/biome", VERSIONS("biome")), script("lint", "biome lint ."),
         script("lint:fix", "biome lint --write ."),
         script("format", "biome format --write .")>>) \o
  When("storybook" \in o.features,
       <<dev("@storybook/" \o getStorybookFramework(o), VERSIONS("storybook")),
         dev("@storybook/" \o getStorybookFramework(o) \o "-vite", VERSIONS("storybook")),
         dev("@storybook/addon-essentials", VERSIONS("storybook")),
         script("storybook", "storybook dev -p 6006"),
         script("build-storybook", "storybook build")>>) \o
  When("husky" \in o.features,
       <<dev("husky", VERSIONS("husky")), dev("lint-staged", VERSIONS("lintStaged")),
         script("prepare", "husky install")>>)

addFeatureDependencies(o, pkg) ==
  LET p0 == DefaultObject(DefaultObject(DefaultObject(pkg, "dependencies"),
                                        "devDependencies"), "scripts")
      p1 == addFrameworkDependencies(o, p0)
      p2 == Perform(p1, FeatureAssignments(o))
      p3 == IF "i18n" \in o.features THEN addI18nDependencies(o, p2) ELSE p2
      p4 == IF Given(o.stateManagement) THEN addStateManagementDependencies(o, p3) ELSE p3
  IN IF Given(o.apiClient) THEN addApiClientDependencies(o, p4) ELSE p4

requiredFields == <<"name", "version", "type", "scripts", "dependencies", "devDependencies">>

\* faulty variant: validatePackageJson checking presence only
validatePackageJsonPresenceOnly(pkg) ==
  LET missing == SelectSeq(requiredFields, LAMBDA f : Get(pkg, f) = Undefined) IN
  IF missing # <<>> THEN "Missing required field in package.json: " \o Head(missing)
  ELSE ""

\* validatePackageJson(pkg): the message of the Error it throws, "" when it returns
validatePackageJson(pkg) ==
  LET missing == SelectSeq(requiredFields, LAMBDA f : Get(pkg, f) = Undefined) IN
  IF missing # <<>> THEN "Missing required field in package.json: " \o Head(missing)
  ELSE IF ~IsString(Get(pkg, "name")) \/ IsBlank(Get(pkg, "name").s)
       THEN "package.json name must be a non-empty string"
  ELSE IF ~IsString(Get(pkg, "version")) THEN "package.json version must be a string"
  ELSE IF Get(pkg, "type") # Str("module")
       THEN "package.json type must be \"module\" for ESM support"
  ELSE IF ~IsObject(Get(pkg, "scripts")) THEN "package.json scripts must be an object"
  ELSE IF ~IsObject(Get(pkg, "dependencies"))
       THEN "package.json dependencies must be an object"
  ELSE IF ~IsObject(Get(pkg, "devDependencies"))
       THEN "package.json devDependencies must be an object"
  ELSE ""

\* faulty variant: customizePackageJson without the version default
BuildPackageJsonKeepsVersion(o, parsed) ==
  LET p1 == Put(parsed, "name", Str(o.name))
      p3 == Put(p1, "type", Str("module"))
      p4 == DefaultObject(DefaultObject(DefaultObject(p3, "scripts"), "dependencies"),
                          "devDependencies")
  IN addFeatureDependencies(o, addStylingDependencies(o, p4))

\* the object customizePackageJson builds from the parsed template manifest
BuildPackageJson(o, parsed) ==
  LET p1 == Put(parsed, "name", Str(o.name))
      p2 == Put(p1, "version", OrElse(Get(p1, "version"), Str("1.0.0")))
      p3 == Put(p2, "type", Str("module"))
      p4 == DefaultObject(DefaultObject(DefaultObject(p3, "scripts"), "dependencies"),
                          "devDependencies")
      p5 == IF ~Truthy(Get(p4, "description"))
            THEN Put(p4, "description",
                     Str("Modern " \o o.framework \o " app built with Viant CLI"))
            ELSE p4
      p6 == IF ~Truthy(Get(p5, "license")) THEN Put(p5, "license", Str("MIT")) ELSE p5
  IN addFeatureDependencies(o, addStylingDependencies(o, p6))

PackageJsonPath == <<"package.json">>
NoManifest == [t |-> "none"]

\* the ProjectGenerationError customizePackageJson's catch block throws
PackageJsonInvalid(msg) ==
  ProjectGenerationError("Failed to customize package.json: " \o msg,
    "PACKAGE_JSON_INVALID", FALSE,
    "The package.json file may be corrupted or have invalid JSON syntax.", msg)

\* the end of customizePackageJson's try block: stringify, validate, write
WritePackageJson(tree, packageJson, writeFails) ==
  IF IsThrown(packageJson)
  THEN [tree |-> tree, built |-> NoManifest, thrown |-> PackageJsonInvalid(packageJson.s)]
  ELSE IF validatePackageJson(packageJson) # ""
  THEN [tree |-> tree, built |-> packageJson,
        thrown |-> PackageJsonInvalid(validatePackageJson(packageJson))]
  ELSE IF writeFails
  THEN [tree |-> tree, built |-> packageJson,
        thrown |-> PackageJsonInvalid("ENOSPC: no space left on device, write")]
  ELSE [tree |-> Overlay(tree, PackageJsonPath :> JsonNode(JSONstringify(packageJson))),
        built |-> packageJson, thrown |-> NoError]

\* customizePackageJson after JSON.parse(readFileSync(packageJsonPath))
CustomizeParsed(o, tree, parsed, writeFails) ==
  IF parsed = SyntaxError
  THEN [tree |-> tree, built |-> NoManifest,
        thrown |-> PackageJsonInvalid("Unexpected token in JSON at position 0")]
  ELSE WritePackageJson(tree, BuildPackageJson(o, parsed), writeFails)

\* customizePackageJson(): the tree afterwards, the object handed to
\* JSON.stringify and the error thrown (NoError when it returns).
\* writeFails: the environment makes writeFileSync throw
customizePackageJson(o, tree, writeFails) ==
  IF ~existsSync(tree, PackageJsonPath)
  THEN [tree |-> tree, built |-> NoManifest, thrown |-> NoError]
  ELSE CustomizeParsed(o, tree, JSONparse(tree[PackageJsonPath].text), writeFails)

(***************************************************************************)
(* The template store (templates/<template>, templates/styles/<styling>)   *)
(***************************************************************************)
TemplatePkgVariants == {"full", "partial", "own-version", "blank-version", "numeric-version",
                        "string-scripts", "string-dependencies", "malformed", "absent"}

\* an object of string members from <<key, value>> pairs
StrObj(pairs) ==
  Obj([k \in {pairs[i][1] : i \in DOMAIN pairs} |->
         Str(pairs[CHOOSE i \in DOMAIN pairs : pairs[i][1] = k][2])])

\* templates/react-ts/package.json, without the members the generator never
\* reads (main, directories, keywords, author)
ShippedPackageJson ==
  Obj([k \in {"name", "version", "scripts", "dependencies", "devDependencies",
              "description", "license"} |->
    CASE k = "name" -> Str("viant")
      [] k = "version" -> Str("1.0.0")
      [] k = "scripts" ->
           StrObj(<<<<"dev", "vite">>, <<"build", "tsc && vite build">>,
                    <<"preview", "vite preview">>, <<"test", "vitest">>,
                    <<"test:ui", "vitest --ui">>, <<"lint", "biome check src">>,
                    <<"type-check", "tsc --noEmit">>>>)
      [] k = "dependencies" ->
           StrObj(<<<<"clsx", "^2.0.0">>, <<"react", "^18.2.0">>,
                    <<"react-dom", "^18.2.0">>>>)
      [] k = "devDependencies" ->
           StrObj(<<<<"@biomejs/biome", "^1.4.1">>, <<"@types/node", "^22.15.21">>,
                    <<"@types/react", "^18.2.45">>, <<"@types/react-dom", "^18.2.18">>,
                    <<"@vitejs/plugin-react-swc", "^3.5.0">>, <<"husky", "^8.0.3">>,
                    <<"lint-staged", "^15.2.0">>, <<"tailwindcss", "^3.3.6">>,
                    <<"typescript", "^5.3.3">>, <<"vite", "^5.0.8">>,
                    <<"vite-plugin-pwa", "^0.17.4">>, <<"vitest", "^1.1.0">>>>)
      [] k = "description" -> Str("<p align=\"center\">Viant</p>")
      [] OTHER -> Str("ISC")])

BaseScripts == Get(ShippedPackageJson, "scripts")

\* the package.json a template ships, as text: "full" is the shipped
\* manifest, the other variants are the shapes a template manifest can have
TemplatePackageText(variant) ==
  LET named == Obj([k \in {"name"} |-> Str("viant-template")]) IN
  CASE variant = "full" -> JSONstringify(ShippedPackageJson)
    [] variant = "partial" -> JSONstringify(named)
    [] variant = "own-version" ->
         JSONstringify(Put(Put(named, "version", Str("0.3.0")), "scripts", BaseScripts))
    [] variant = "blank-version" ->
         JSONstringify(Put(Put(named, "version", Str("")), "scripts", BaseScripts))
    [] variant = "numeric-version" ->
         JSONstringify(Put(Put(named, "version", Num("2")), "scripts", BaseScripts))
    [] variant = "string-scripts" -> JSONstringify(Put(named, "scripts", Str("vite")))
    [] variant = "string-dependencies" ->
         JSONstringify(Put(Put(named, "scripts", BaseScripts), "dependencies", Str("none")))
    [] OTHER -> MalformedText

TsconfigText ==
  JSONstringify(Obj([k \in {"compilerOptions"} |->
    Obj([c \in {"strict", "baseUrl"} |-> IF c = "strict" THEN Bool(TRUE) ELSE Str(".")])]))

ViteConfigPath(typescript) == <<"vite.config." \o (IF typescript THEN "ts" ELSE "js")>>

\* the tree of templates/<template>; t.pkg names the manifest variant,
\* t.gitignore tells whether the template ships a .gitignore
TemplateTree(template, t) ==
  LET typed == Includes(template, "-ts")
      base == (Root :> DirNode) @@ (<<"index.html">> :> FileNode("index.html"))
              @@ (<<"src">> :> DirNode)
              @@ (<<"src", "index.css">> :> FileNode("template-css"))
              @@ (ViteConfigPath(typed) :> FileNode("vite-config"))
      components == IF FirstSegment(template) = "vanilla" THEN <<>>
                    ELSE (<<"src", "components">> :> DirNode)
                         @@ (<<"src", "components", "ViantLogo">> :> FileNode("component"))
      tsconfig == IF typed THEN (<<"tsconfig.json">> :> JsonNode(TsconfigText)) ELSE <<>>
      pkg == IF t.pkg = "absent" THEN <<>>
             ELSE (PackageJsonPath :> JsonNode(TemplatePackageText(t.pkg)))
      ignore == IF t.gitignore THEN (<<".gitignore">> :> FileNode("template-gitignore"))
                ELSE <<>>
  IN base @@ components @@ tsconfig @@ pkg @@ ignore

\* the tree of templates/styles/<styling>, empty when there is none
StylesTree(styling, t) ==
  IF t.styles
  THEN (Root :> DirNode) @@ (<<"src">> :> DirNode)
       @@ (<<"src", "index.css">> :> FileNode("styles-" \o styling))
  ELSE NoDir

(***************************************************************************)
(* copyTemplateFiles and its helpers (index.ts)                            *)
(***************************************************************************)
\* the subdirectories ensureProjectStructure wants below src/
Subdirectories(o) ==
  (CASE o.framework \in {"react", "preact", "solid"} -> {"components", "hooks", "utils"}
     [] o.framework = "vue" -> {"components", "composables", "utils"}
     [] o.framework = "svelte" -> {"lib", "components", "utils"}
     [] o.framework = "vanilla" -> {"utils"}
     [] OTHER -> {})
  \cup (IF o.typescript /\ o.framework \in Frameworks THEN {"types"} ELSE {})

\* faulty variant: ensureProjectStructure writing .gitkeep into every
\* subdirectory, those of the template included
ensureProjectStructureKeepingAll(o, tree) ==
  LET withSrc == IF existsSync(tree, <<"src">>) THEN tree
                 ELSE Overlay(tree, <<"src">> :> DirNode)
      added == [p \in {<<"src", d>> : d \in Subdirectories(o)}
                      \cup {<<"src", d, ".gitkeep">> : d \in Subdirectories(o)} |->
                  IF Len(p) = 2 THEN DirNode ELSE FileNode("")]
  IN Overlay(withSrc, added)

ensureProjectStructure(o, tree) ==
  LET withSrc == IF existsSync(tree, <<"src">>) THEN tree
                 ELSE Overlay(tree, <<"src">> :> DirNode)
      missing == {d \in Subdirectories(o) : ~existsSync(withSrc, <<"src", d>>)}
      added == [p \in {<<"src", d>> : d \in missing}
                      \cup {<<"src", d, ".gitkeep">> : d \in missing} |->
                  IF Len(p) = 2 THEN DirNode ELSE FileNode("")]
  IN Overlay(withSrc, added)

GitignorePath == <<".gitignore">>
\* the text of the .gitignore generateGitignore() writes, blank lines left out
gitignoreContent ==
  "# Dependency directories\nnode_modules/\n# Build output\ndist/\nbuild/\n" \o
  "# Environment variables\n.env\n.env.local\n.env.development\n.env.test\n" \o
  ".env.production\n.env*.local\n# IDE and editor files\n.vscode/\n.idea/\n" \o
  "*.suo\n*.ntvs*\n*.njsproj\n*.sln\n*.sw?\n# OS generated files\n.DS_Store\n" \o
  ".DS_Store?\n._*\n.Spotlight-V100\n.Trashes\nehthumbs.db\nThumbs.db\n" \o
  "# Debug logs\nnpm-debug.log*\nyarn-debug.log*\nyarn-error.log*\n" \o
  "pnpm-debug.log*\n# Lock files (uncomment if you want to ignore)\n" \o
  "# bun.lockb\n# pnpm-lock.yaml\n# package-lock.json\n# yarn.lock\n" \o
  "# Test coverage\ncoverage/\n.nyc_output/\n# Vite cache\n.vite/\n" \o
  "# TypeScript cache\n*.tsbuildinfo\n# Temporary files\n*.tmp\n*.bak\n*.temp\n"

\* a file holding text
TextNode(text) == [kind |-> "file", text |-> text, tag |-> "text"]

\* faulty variant: generateGitignore without the existsSync test
generateGitignoreOverwriting(tree) ==
  Overlay(tree, GitignorePath :> TextNode(gitignoreContent))

generateGitignore(tree) ==
  IF existsSync(tree, GitignorePath) THEN tree
  ELSE Overlay(tree, GitignorePath :> TextNode(gitignoreContent))

CopyFaults == {"none", "copy", "structure", "gitignore"}

\* faulty variant: copyTemplateFiles letting what copySync, mkdirSync or
\* writeFileSync threw escape as it is
copyTemplateFilesUnwrapped(o, tree, t, fault) ==
  LET copied == Overlay(Overlay(tree, TemplateTree(o.template, t)), StylesTree(o.styling, t))
      structured == ensureProjectStructure(o, copied)
  IN
  IF o.template \notin templates
  THEN [tree |-> tree,
        thrown |-> ProjectGenerationError(
          "Template \"" \o o.template \o "\" not found", "TEMPLATE_NOT_FOUND", FALSE,
          "Please check the template name and try again.", "")]
  ELSE CASE fault = "copy" ->
              [tree |-> Overlay(tree, <<"index.html">> :> FileNode("index.html")),
               thrown |-> PlainError("ENOSPC: no space left on device, copyfile")]
         [] fault = "structure" ->
              [tree |-> copied, thrown |-> PlainError("EACCES: permission denied, mkdir")]
         [] fault = "gitignore" /\ ~existsSync(structured, GitignorePath) ->
              [tree |-> structured,
               thrown |-> PlainError("ENOSPC: no space left on device, write")]
         [] OTHER -> [tree |-> generateGitignore(structured), thrown |-> NoError]

\* copyTemplateFiles(): the tree afterwards and the error thrown.
\* fault names the file operation the environment makes throw
copyTemplateFiles(o, tree, t, fault) ==
  LET failed(msg) ==
        ProjectGenerationError("Failed to copy template files: " \o msg, "COPY_FAILED",
          FALSE, "Please check file permissions and available disk space.", msg)
      copied == Overlay(Overlay(tree, TemplateTree(o.template, t)), StylesTree(o.styling, t))
      structured == ensureProjectStructure(o, copied)
  IN
  IF o.template \notin templates
  THEN [tree |-> tree,
        thrown |-> ProjectGenerationError(
          "Template \"" \o o.template \o "\" not found", "TEMPLATE_NOT_FOUND", FALSE,
          "Please check the template name and try again. Available templates: react-ts, react-js, vue-ts, vue-js, svelte-ts, svelte-js, solid-ts, solid-js, preact-ts, preact-js, vanilla-ts, vanilla-js",
          "")]
  ELSE CASE fault = "copy" ->
              \* copySync threw after copying the first entries
              [tree |-> Overlay(tree, <<"index.html">> :> FileNode("index.html")),
               thrown |-> failed("ENOSPC: no space left on device, copyfile")]
         [] fault = "structure" ->
              [tree |-> copied, thrown |-> failed("EACCES: permission denied, mkdir")]
         [] fault = "gitignore" /\ ~existsSync(structured, GitignorePath) ->
              [tree |-> structured, thrown |-> failed("ENOSPC: no space left on device, write")]
         [] OTHER -> [tree |-> generateGitignore(structured), thrown |-> NoError]

(***************************************************************************)
(* customizeFiles and the config writers (index.ts)                        *)
(***************************************************************************)
CssPath == <<"src", "index.css">>
Ext(o) == IF o.typescript THEN "ts" ELSE "js"

\* addStylingConfigs(): the tree afterwards
addStylingConfigs(o, tree) ==
  LET t1 == IF o.styling \in {"css-modules", "sass"}
            THEN Overlay(tree, <<"postcss.config.ts">> :> FileNode("postcss-config"))
            ELSE tree
      withoutCss(t) == IF existsSync(t, CssPath) THEN Remove(t, CssPath) ELSE t
  IN CASE o.styling = "tailwind" -> Overlay(t1, CssPath :> FileNode("tailwind-css"))
       [] o.styling = "styled-components" -> withoutCss(t1)
       [] o.styling = "css-modules" -> Overlay(t1, CssPath :> FileNode("css-modules-css"))
       [] o.styling = "sass" ->
            withoutCss(Overlay(t1, <<"src", "index.scss">> :> FileNode("sass-scss")))
       [] OTHER -> t1

\* updateViteConfigForPWA / addBundleAnalyzerConfig: the plugin is spliced
\* into vite.config unless it is there already; swallowed names a failure
\* the method catches and only warns about
updateViteConfig(o, tree, plugin, swallowed) ==
  LET p == ViteConfigPath(o.typescript) IN
  IF ~existsSync(tree, p) \/ swallowed \/ Includes(tree[p].tag, plugin) THEN tree
  ELSE Overlay(tree, p :> FileNode(tree[p].tag \o "+" \o plugin))

addPWAConfig(o, tree, swallowed) ==
  updateViteConfig(o,
    Overlay(tree, (<<"public">> :> DirNode)
                  @@ (<<"public", "manifest.json">> :> FileNode("pwa-manifest"))),
    "vite-plugin-pwa", swallowed)

addBundleAnalyzerConfig(o, tree, swallowed) ==
  updateViteConfig(o, tree, "rollup-plugin-visualizer", swallowed)

addI18nConfig(o, tree) ==
  LET dirs == (<<"src", "i18n">> :> DirNode) @@ (<<"src", "i18n", "locales">> :> DirNode)
      locales == (<<"src", "i18n", "locales", "en.json">> :> FileNode("en"))
                 @@ (<<"src", "i18n", "locales", "es.json">> :> FileNode("es"))
      index == <<"src", "i18n", "index." \o Ext(o)>> :> FileNode("i18n-" \o o.framework)
      hook == CASE o.framework \in {"react", "preact"} ->
                     (<<"src", "hooks">> :> DirNode)
                     @@ (<<"src", "hooks", "useTranslation." \o Ext(o)>> :> FileNode("hook"))
                [] o.framework = "vue" ->
                     (<<"src", "composables">> :> DirNode)
                     @@ (<<"src", "composables", "useTranslation." \o Ext(o)>>
                           :> FileNode("composable"))
                [] OTHER -> <<>>
  IN Overlay(tree, dirs @@ locales @@ index @@ hook)

TsconfigPath == <<"tsconfig.json">>
\* faulty variant: addStrictTypeScriptConfig writing compilerOptions anew
addStrictTypeScriptConfigReplacing(tree, swallowed) ==
  IF ~existsSync(tree, TsconfigPath) \/ swallowed THEN tree
  ELSE LET tsconfig == JSONparse(tree[TsconfigPath].text) IN
       IF tsconfig = SyntaxError THEN tree
       ELSE LET options == Put(Put(EmptyObj, "noUncheckedIndexedAccess", Bool(TRUE)),
                               "exactOptionalPropertyTypes", Bool(TRUE))
            IN Overlay(tree, TsconfigPath :>
                 JsonNode(JSONstringify(Put(tsconfig, "compilerOptions", options))))

\* addStrictTypeScriptConfig(): errors are caught and only warned about
addStrictTypeScriptConfig(tree, swallowed) ==
  IF ~existsSync(tree, TsconfigPath) \/ swallowed THEN tree
  ELSE LET tsconfig == JSONparse(tree[TsconfigPath].text) IN
       IF tsconfig = SyntaxError THEN tree
       ELSE LET withOptions == DefaultObject(tsconfig, "compilerOptions")
                options == Put(Put(Get(withOptions, "compilerOptions"),
                                   "noUncheckedIndexedAccess", Bool(TRUE)),
                               "exactOptionalPropertyTypes", Bool(TRUE))
            IN Overlay(tree, TsconfigPath :>
                 JsonNode(JSONstringify(Put(withOptions, "compilerOptions", options))))

addFeatureConfigs(o, tree, swallowed) ==
  LET t1 == IF "pwa" \in o.features THEN addPWAConfig(o, tree, swallowed) ELSE tree
      t2 == IF "analyzer" \in o.features THEN addBundleAnalyzerConfig(o, t1, swallowed) ELSE t1
      t3 == IF "i18n" \in o.features THEN addI18nConfig(o, t2) ELSE t2
      t4 == IF "github-actions" \in o.features
            THEN Overlay(t3, (<<".github">> :> DirNode)
                             @@ (<<".github", "workflows">> :> DirNode)
                             @@ (<<".github", "workflows", "ci.yml">> :> FileNode("ci")))
            ELSE t3
      t5 == IF "docker" \in o.features
            THEN Overlay(t4, (<<"Dockerfile">> :> FileNode("dockerfile"))
                             @@ (<<".dockerignore">> :> FileNode("dockerignore")))
            ELSE t4
  IN IF "strict-ts" \in o.features /\ o.typescript
     THEN addStrictTypeScriptConfig(t5, swallowed) ELSE t5

CustomizeFaults == {"none", "package.json", "styling", "feature", "swallowed"}

\* customizeFiles(): the tree afterwards, the manifest object built and the
\* error thrown. fault names the write the environment makes throw
\* ("swallowed": inside a method that catches it)
\* customizeFiles() after addStylingConfigs: addFeatureConfigs when a feature
\* is selected; swallowed tells whether a write failed inside a method that
\* only warns
CustomizeFeatures(o, built, styled, fault) ==
  IF o.features = {}
  THEN [tree |-> styled, built |-> built, thrown |-> NoError, swallowed |-> FALSE]
  ELSE IF fault = "feature" /\ addFeatureConfigs(o, styled, TRUE) # styled
  THEN [tree |-> styled, built |-> built, swallowed |-> FALSE,
        thrown |-> PlainError("ENOSPC: no space left on device, write")]
  ELSE [tree |-> addFeatureConfigs(o, styled, fault = "swallowed"), built |-> built,
        thrown |-> NoError,
        swallowed |-> addFeatureConfigs(o, styled, fault = "swallowed")
                        # addFeatureConfigs(o, styled, FALSE)]

\* customizeFiles() after customizePackageJson: addStylingConfigs for a
\* styling other than css-modules
CustomizeStyling(o, tree, built, styled, fault) ==
  IF fault = "styling" /\ styled # tree
  THEN [tree |-> tree, built |-> built, swallowed |-> FALSE,
        thrown |-> PlainError("ENOSPC: no space left on device, write")]
  ELSE CustomizeFeatures(o, built, styled, fault)

CustomizeRest(o, r, fault) ==
  IF r.thrown # NoError
  THEN [tree |-> r.tree, built |-> r.built, thrown |-> r.thrown, swallowed |-> FALSE]
  ELSE CustomizeStyling(o, r.tree, r.built,
         IF Given(o.styling) /\ o.styling # "css-modules"
         THEN addStylingConfigs(o, r.tree) ELSE r.tree, fault)

\* customizeFiles(): the tree afterwards, the manifest object built and the
\* error thrown (NoError when it returns)
customizeFiles(o, tree, fault) ==
  CustomizeRest(o, customizePackageJson(o, tree, fault = "package.json"), fault)

(***************************************************************************)
(* One CLI invocation: main() and ProjectGenerator.generate()              *)
(***************************************************************************)
\* the inputs one invocation is checked on
RunNames == {"demo-app", "MyApp", " "}
RunTemplates == {"react-ts", "vanilla-js", "default"}
RunFeatures == {"pwa", "strict-ts"}
TypedNames == {"", "demo-app", "My App"}
AvailableManagers == {{}, {"npm", "bun"}}
RunTemplateStores ==
  {[pkg |-> v, gitignore |-> FALSE, styles |-> FALSE] :
     v \in {"full", "partial", "numeric-version", "malformed", "absent"}}
  \cup {[pkg |-> "full", gitignore |-> TRUE, styles |-> TRUE]}
\* what is at the target path before the run: nothing, or a directory of the user's
PreExisting == {NoDir, ProjectTree(1, 1)}

\* command lines with the name and all of -t, -s and -p
FlagInvocations ==
  {[projectName |-> n, template |-> t, packageManager |-> "npm",
    styling |-> IF t = "react-ts" THEN "tailwind" ELSE "none",
    skipInstall |-> si, skipGit |-> sg, skipDev |-> sd] :
      n \in RunNames, t \in RunTemplates,
      si \in BOOLEAN, sg \in BOOLEAN, sd \in BOOLEAN}

\* command lines that lack one of them
PromptInvocations ==
  {[projectName |-> n, template |-> t, packageManager |-> NoArg, styling |-> NoArg,
    skipInstall |-> t # NoArg, skipGit |-> FALSE, skipDev |-> FALSE] :
      n \in {NoArg, "", "MyApp"}, t \in {NoArg, "react-ts"}}

NoRm == [kind |-> "none", message |-> ""]
NoDetection == [available |-> {}, ordered |-> <<>>]

Quiet ==
  /\ manifest = NoManifest /\ written = {} /\ error = NoError /\ failedAt = "none"
  /\ warned = {} /\ install = "none" /\ cleanupResult = NoResult /\ cleanupCalls = 0
  /\ rmOutcome = NoRm /\ log = {} /\ exitCode = -1 /\ detected = NoDetection
  /\ ctx = NoArg /\ events = <<>>

Init ==
  /\ pc = "main"
  /\ argv \in FlagInvocations \cup PromptInvocations
  /\ opts = NoOpts
  /\ tpl \in RunTemplateStores
  /\ fs0 \in PreExisting
  /\ fs = fs0
  /\ Quiet

\* main(): the action callback up to the construction of the generator
Main ==
  /\ pc = "main"
  /\ IF Given(argv.projectName) /\ Given(argv.template) /\ Given(argv.styling)
        /\ Given(argv.packageManager)
     THEN LET o == OptionsFromFlags(argv) IN
          /\ opts' = IF ~Given(o.framework) /\ Given(o.template)
                     THEN [o EXCEPT !.framework = FirstSegment(o.template)] ELSE o
          /\ pc' = "generate"
     ELSE /\ pc' = "prompt"
          /\ opts' = opts
  /\ UNCHANGED <<argv, tpl, fs, fs0, manifest, written, error, failedAt, warned, install,
                 cleanupResult, cleanupCalls, rmOutcome, log, exitCode>>
  /\ UNCHANGED <<detected, ctx, events>>

\* getProjectOptions(): prompts returns the answers; the name question is
\* asked only without a name argument and accepts only a valid name
Prompt ==
  /\ pc = "prompt"
  /\ \E typed \in TypedNames, available \in AvailableManagers :
       \E r \in Answers(RunFeatures, {"react"}, {"none"},
                        {orderPackageManagers(available)[1]}, BOOLEAN) :
         /\ Given(argv.projectName) \/ validateName(typed)
         /\ opts' = OptionsFromAnswers(argv.projectName, typed, r)
  /\ pc' = "generate"
  /\ UNCHANGED <<argv, tpl, fs, fs0, manifest, written, error, failedAt, warned, install,
                 cleanupResult, cleanupCalls, rmOutcome, log, exitCode>>
  /\ UNCHANGED <<detected, ctx, events>>

\* the name question rejects an invalid name with validateName's message and asks again
PromptRejectName ==
  /\ pc = "prompt"
  /\ ~Given(argv.projectName)
  /\ \E typed \in TypedNames : ~validateName(typed)
  /\ log' = log \cup {"validation-error"}
  /\ UNCHANGED <<pc, argv, opts, tpl, fs, fs0, manifest, written, error, failedAt, warned,
                 install, cleanupResult, cleanupCalls, rmOutcome, exitCode>>
  /\ UNCHANGED <<detected, ctx, events>>

\* onCancel of prompts
PromptCancel ==
  /\ pc = "prompt"
  /\ log' = log \cup {"cancelled"}
  /\ exitCode' = 1
  /\ pc' = "exited"
  /\ UNCHANGED <<argv, opts, tpl, fs, fs0, manifest, written, error, failedAt, warned,
                 install, cleanupResult, cleanupCalls, rmOutcome>>
  /\ UNCHANGED <<detected, ctx, events>>

\* a throw inside generate()'s try block
Throw(e, step) ==
  /\ error' = e
  /\ failedAt' = step
  /\ pc' = "catch"

NextAfterGit(o) == IF o.installDeps THEN "install" ELSE "complete"
\* faulty variant: generate() installing the dependencies before git init
NextAfterCustomizeInstallsFirst(o) ==
  IF o.installDeps THEN "install" ELSE IF o.initGit THEN "git" ELSE "complete"

NextAfterCustomize(o) == IF o.initGit THEN "git" ELSE NextAfterGit(o)

\* validateProjectDir()
ValidateProjectDir ==
  /\ pc = "generate"
  /\ IF existsSync(fs, Root)
     THEN /\ Throw(ProjectGenerationError(
                 "Directory \"" \o opts.name \o "\" already exists", "DIR_EXISTS", FALSE,
                 "Please choose a different project name or remove the existing directory.",
                 ""), "validate")
          /\ UNCHANGED <<fs, written>>
     ELSE \E mkdir \in {"ok", "EACCES", "ENOSPC"} :
            CASE mkdir = "ok" ->
                   /\ fs' = (Root :> DirNode)
                   /\ written' = {Root}
                   /\ pc' = "copy"
                   /\ UNCHANGED <<error, failedAt>>
              [] mkdir = "EACCES" ->
                   /\ Throw(ProjectGenerationError(
                        "Permission denied when creating directory \"" \o opts.name \o "\"",
                        "PERMISSION_DENIED", FALSE,
                        "Please check your file system permissions or try a different location.",
                        "EACCES: permission denied, mkdir"), "validate")
                   /\ UNCHANGED <<fs, written>>
              [] OTHER ->
                   /\ Throw(PlainError("ENOSPC: no space left on device, mkdir"), "validate")
                   /\ UNCHANGED <<fs, written>>
  /\ UNCHANGED <<argv, opts, tpl, fs0, manifest, warned, install, cleanupResult,
                 cleanupCalls, rmOutcome, log, exitCode>>
  /\ UNCHANGED <<detected, ctx, events>>

\* the paths whose node differs between two trees
Changed(before, after) ==
  {p \in DOMAIN after : p \notin DOMAIN before \/ before[p] # after[p]}

\* generate() after a step returned r: the tree it left, and the catch block
\* when it threw
Step(r, step, next) ==
  /\ fs' = r.tree
  /\ written' = written \cup Changed(fs, r.tree)
  /\ IF r.thrown # NoError THEN Throw(r.thrown, step)
     ELSE pc' = next /\ UNCHANGED <<error, failedAt>>

\* copyTemplateFiles()
CopyTemplateFiles ==
  /\ pc = "copy"
  /\ \E fault \in CopyFaults : Step(copyTemplateFiles(opts, fs, tpl, fault), "copy", "customize")
  /\ UNCHANGED <<argv, opts, tpl, fs0, manifest, warned, install, cleanupResult,
                 cleanupCalls, rmOutcome, log, exitCode>>
  /\ UNCHANGED <<detected, ctx, events>>

Customized(r) ==
  /\ Step(r, "customize", NextAfterCustomize(opts))
  /\ manifest' = r.built
  /\ warned' = IF r.swallowed THEN warned \cup {"config"} ELSE warned

\* customizeFiles()
CustomizeFiles ==
  /\ pc = "customize"
  /\ \E fault \in CustomizeFaults : Customized(customizeFiles(opts, fs, fault))
  /\ UNCHANGED <<argv, opts, tpl, fs0, install, cleanupResult, cleanupCalls, rmOutcome,
                 log, exitCode>>
  /\ UNCHANGED <<detected, ctx, events>>

\* faulty variant: initializeGit letting the exception of a git command escape
InitializeGitRethrows ==
  /\ pc = "git"
  /\ \E git \in {"ok", "init-fails", "commit-fails"} :
       /\ fs' = IF git = "init-fails" THEN fs ELSE Overlay(fs, <<".git">> :> DirNode)
       /\ log' = log \cup {IF git = "ok" THEN "git-initialized" ELSE "git-failed"}
       /\ warned' = IF git = "ok" THEN warned ELSE warned \cup {"git"}
       /\ IF git = "ok" THEN pc' = NextAfterGit(opts) /\ UNCHANGED <<error, failedAt>>
          ELSE Throw(PlainError("Command failed: git " \o git), "git")
  /\ UNCHANGED <<argv, opts, tpl, fs0, manifest, written, install,
                 cleanupResult, cleanupCalls, rmOutcome, exitCode>>
  /\ UNCHANGED <<detected, ctx, events>>

\* initializeGit(): git init, git add, git commit; a failure is caught,
\* reported and not rethrown
InitializeGit ==
  /\ pc = "git"
  /\ \E git \in {"ok", "init-fails", "commit-fails"} :
       /\ fs' = IF git = "init-fails" THEN fs ELSE Overlay(fs, <<".git">> :> DirNode)
       /\ log' = log \cup {IF git = "ok" THEN "git-initialized" ELSE "git-failed"}
       /\ warned' = IF git = "ok" THEN warned ELSE warned \cup {"git"}
  /\ pc' = NextAfterGit(opts)
  /\ UNCHANGED <<argv, opts, tpl, fs0, manifest, written, error, failedAt, install,
                 cleanupResult, cleanupCalls, rmOutcome, exitCode>>
  /\ UNCHANGED <<detected, ctx, events>>

\* an event of the install child process
ErrorEvent == [type |-> "error", code |-> ""]
CloseEvent(code) == [type |-> "close", code |-> code]

\* faulty variant: a promise a later resolve() or reject() settles again
settleAgain(promise, outcome) == outcome

\* resolve() or reject() of the promise installDependencies returns: only a
\* pending promise takes the outcome
settle(promise, outcome) == IF promise = "pending" THEN outcome ELSE promise

\* faulty variant: installDependencies resolving as soon as the package
\* manager is spawned
InstallDependenciesNotAwaited ==
  /\ pc = "install"
  /\ \E spawned \in BOOLEAN :
       IF spawned
       THEN /\ install' = "pending"
            /\ pc' = "complete"
            /\ UNCHANGED <<error, failedAt, log>>
       ELSE /\ install' = "rejected"
            /\ log' = log \cup {"install-failed", "manual-install"}
            /\ Throw(PlainError("The argument 'file' cannot be empty"), "install")
  /\ UNCHANGED <<argv, opts, tpl, fs, fs0, manifest, written, warned, cleanupResult,
                 cleanupCalls, rmOutcome, exitCode>>
  /\ UNCHANGED <<detected, ctx, events>>

\* installDependencies(): spawn the package manager; a synchronous throw of
\* spawn rejects the promise at once
InstallDependencies ==
  /\ pc = "install"
  /\ \E spawned \in BOOLEAN :
       IF spawned
       THEN /\ install' = "pending"
            /\ pc' = "installing"
            /\ UNCHANGED <<error, failedAt, log>>
       ELSE /\ install' = "rejected"
            /\ log' = log \cup {"install-failed", "manual-install"}
            /\ Throw(PlainError("The argument 'file' cannot be empty"), "install")
  /\ UNCHANGED <<argv, opts, tpl, fs, fs0, manifest, written, warned, cleanupResult,
                 cleanupCalls, rmOutcome, exitCode>>
  /\ UNCHANGED <<detected, ctx, events>>

\* the handler installProcess.on('error'): report, reject(error)
installProcessOnError ==
  /\ events' = Append(events, ErrorEvent)
  /\ install' = settle(install, "rejected")
  /\ log' = log \cup {"install-failed", "manual-install"}

\* the handler installProcess.on('close'): resolve() for code 0, otherwise
\* report and reject(new Error(...))
installProcessOnClose(code) ==
  /\ events' = Append(events, CloseEvent(code))
  /\ install' = settle(install, IF code = "0" THEN "resolved" ELSE "rejected")
  /\ log' = log \cup (IF code = "0" THEN {"installed"}
                      ELSE {"install-failed", "manual-install"})

\* the first event is 'error': the await in generate() throws
InstallOnError ==
  /\ pc = "installing"
  /\ install = "pending"
  /\ installProcessOnError
  /\ Throw(PlainError("spawn " \o opts.packageManager \o " ENOENT"), "install")
  /\ UNCHANGED <<argv, opts, tpl, fs, fs0, manifest, written, warned, cleanupResult,
                 cleanupCalls, rmOutcome, exitCode>>
  /\ UNCHANGED <<detected, ctx>>

\* the first event is 'close': the await in generate() returns for code 0
\* and throws otherwise
InstallOnClose ==
  /\ pc = "installing"
  /\ install = "pending"
  /\ \E code \in {"0", "1"} :
       /\ installProcessOnClose(code)
       /\ IF code = "0"
          THEN /\ fs' = Overlay(fs, <<"node_modules">> :> DirNode)
               /\ pc' = "complete"
               /\ UNCHANGED <<error, failedAt>>
          ELSE /\ fs' = fs
               /\ Throw(PlainError("Dependency installation failed with code " \o code),
                        "install")
  /\ UNCHANGED <<argv, opts, tpl, fs0, manifest, written, warned, cleanupResult,
                 cleanupCalls, rmOutcome, exitCode>>
  /\ UNCHANGED <<detected, ctx>>

\* showCompletionMessage(), and the end of generate() when no dev server is asked for
ShowCompletionMessage ==
  /\ pc = "complete"
  /\ log' = log \cup {"completion"}
  /\ IF opts.runDev /\ opts.installDeps
     THEN pc' = "dev" /\ exitCode' = exitCode
     ELSE pc' = "exited" /\ exitCode' = 0
  /\ UNCHANGED <<argv, opts, tpl, fs, fs0, manifest, written, error, failedAt, warned,
                 install, cleanupResult, cleanupCalls, rmOutcome>>
  /\ UNCHANGED <<detected, ctx, events>>

\* runDevServer(): spawn
RunDevServer ==
  /\ pc = "dev"
  /\ \E spawned \in BOOLEAN :
       IF spawned
       THEN /\ pc' = "serving"
            /\ log' = log \cup {"dev-server-started"}
            /\ UNCHANGED <<error, failedAt>>
       ELSE /\ log' = log \cup {"dev-server-failed"}
            /\ Throw(PlainError("The argument 'file' cannot be empty"), "dev")
  /\ UNCHANGED <<argv, opts, tpl, fs, fs0, manifest, written, warned, install,
                 cleanupResult, cleanupCalls, rmOutcome, exitCode>>
  /\ UNCHANGED <<detected, ctx, events>>

\* devServerProcess.on('error')
DevServerOnError ==
  /\ pc = "serving"
  /\ log' = log \cup {"dev-server-failed"}
  /\ Throw(PlainError("spawn " \o opts.packageManager \o " ENOENT"), "dev")
  /\ UNCHANGED <<argv, opts, tpl, fs, fs0, manifest, written, warned, install,
                 cleanupResult, cleanupCalls, rmOutcome, exitCode>>
  /\ UNCHANGED <<detected, ctx, events>>

\* devServerProcess.on('close')
DevServerOnClose ==
  /\ pc = "serving"
  /\ \E code \in {"0", "null", "1"} :
       IF code \in {"0", "null"}
       THEN /\ log' = log \cup {"dev-server-closed"}
            /\ pc' = "exited"
            /\ exitCode' = 0
            /\ UNCHANGED <<error, failedAt>>
       ELSE /\ log' = log \cup {"dev-server-failed"}
            /\ exitCode' = exitCode
            /\ Throw(PlainError("Development server exited with code " \o code), "dev")
  /\ UNCHANGED <<argv, opts, tpl, fs, fs0, manifest, written, warned, install,
                 cleanupResult, cleanupCalls, rmOutcome>>
  /\ UNCHANGED <<detected, ctx, events>>

\* what cleanup() prints for a CleanupResult
cleanupMessages(result) ==
  IF ~result.existed THEN {}
  ELSE IF result.success THEN {"cleaned-up"}
  ELSE {"cleanup-failed", "manual-remove"}
       \cup (IF result.error \notin {"", NoErrorText} THEN {"cleanup-error"} ELSE {})

\* faulty variant: a catch block that exits without calling cleanup()
CatchErrorWithoutCleanup ==
  /\ pc = "catch"
  /\ error' = IF error.class = "ProjectGenerationError" THEN error
              ELSE wrapError(error, "Project generation failed")
  /\ log' = log \cup {"failed", "error-displayed"}
  /\ exitCode' = 1
  /\ pc' = "exited"
  /\ UNCHANGED <<argv, opts, tpl, fs, fs0, manifest, written, failedAt, warned, install,
                 cleanupResult, cleanupCalls, rmOutcome>>
  /\ UNCHANGED <<detected, ctx, events>>

\* the catch block of generate(): display the error, cleanup(), process.exit(1)
CatchError ==
  /\ pc = "catch"
  /\ error' = IF error.class = "ProjectGenerationError" THEN error
              ELSE wrapError(error, "Project generation failed")
  /\ \E rm \in (IF existsSync(fs, Root) THEN RmOutcomes(fs) ELSE {[kind |-> "none",
                  message |-> "", after |-> fs]}) :
       LET r == cleanupProject(fs, rm) IN
       /\ fs' = r.after
       /\ cleanupResult' = r.result
       /\ rmOutcome' = [kind |-> rm.kind, message |-> rm.message]
       /\ log' = log \cup {"failed", "error-displayed"} \cup cleanupMessages(r.result)
  /\ cleanupCalls' = cleanupCalls + 1
  /\ exitCode' = 1
  /\ pc' = "exited"
  /\ UNCHANGED <<argv, opts, tpl, fs0, manifest, written, failedAt, warned, install>>
  /\ UNCHANGED <<detected, ctx, events>>

Next ==
  \/ Main \/ Prompt \/ PromptRejectName \/ PromptCancel
  \/ ValidateProjectDir \/ CopyTemplateFiles \/ CustomizeFiles \/ InitializeGit
  \/ InstallDependencies \/ InstallOnError \/ InstallOnClose
  \/ ShowCompletionMessage \/ RunDevServer \/ DevServerOnError \/ DevServerOnClose
  \/ CatchError

Spec == Init /\ [][Next]_vars

(***************************************************************************)
(* customizeFiles on every Selection                                       *)
(***************************************************************************)
\* every ProjectOptions main() can hand to the generator with at most
\* MaxFeatures feature flags, the directives left at their defaults
Selections ==
  {OptionsFromFlags([projectName |-> n, template |-> t, styling |-> s,
                     packageManager |-> "npm", skipInstall |-> FALSE, skipGit |-> FALSE,
                     skipDev |-> FALSE]) :
     n \in {"demo-app", "MyApp"}, t \in templates, s \in stylingOptions}
  \cup {OptionsFromAnswers(NoArg, "demo-app", r) :
          r \in Answers(featureOptions, Frameworks, stylingOptions, {"npm"}, {TRUE})}

ManifestTemplateStores ==
  {[pkg |-> v, gitignore |-> FALSE, styles |-> FALSE] : v \in TemplatePkgVariants}

\* the states generate() is in when customizeFiles() is called
InitManifest ==
  /\ pc = "customize"
  /\ opts \in Selections
  /\ tpl \in ManifestTemplateStores
  /\ argv = [projectName |-> NoArg, template |-> NoArg, styling |-> NoArg,
             packageManager |-> NoArg, skipInstall |-> FALSE, skipGit |-> FALSE,
             skipDev |-> FALSE]
  /\ fs0 = NoDir
  /\ fs = copyTemplateFiles(opts, (Root :> DirNode), tpl, "none").tree
  /\ manifest = NoManifest /\ written = DOMAIN fs /\ error = NoError /\ failedAt = "none"
  /\ warned = {} /\ install = "none" /\ cleanupResult = NoResult /\ cleanupCalls = 0
  /\ rmOutcome = NoRm /\ log = {} /\ exitCode = -1 /\ detected = NoDetection
  /\ ctx = NoArg /\ events = <<>>

NextManifest == CustomizeFiles

SpecManifest == InitManifest /\ [][NextManifest]_vars

(***************************************************************************)
(* cleanupProject on directory trees                                       *)
(***************************************************************************)
InitCleanup ==
  /\ pc = "cleanup"
  /\ fs0 \in Trees \cup {NoDir}
  /\ fs = fs0
  /\ argv = [projectName |-> NoArg, template |-> NoArg, styling |-> NoArg,
             packageManager |-> NoArg, skipInstall |-> FALSE, skipGit |-> FALSE,
             skipDev |-> FALSE]
  /\ opts = NoOpts
  /\ tpl = [pkg |-> "absent", gitignore |-> FALSE, styles |-> FALSE]
  /\ Quiet

\* one call cleanupProject(projectPath)
CallCleanupProject ==
  /\ pc = "cleanup"
  /\ cleanupCalls < MaxCalls
  /\ \E rm \in (IF existsSync(fs, Root) THEN RmOutcomes(fs) ELSE {[kind |-> "none",
                  message |-> "", after |-> fs]}) :
       LET r == cleanupProject(fs, rm) IN
       /\ fs' = r.after
       /\ cleanupResult' = r.result
       /\ rmOutcome' = [kind |-> rm.kind, message |-> rm.message]
  /\ cleanupCalls' = cleanupCalls + 1
  /\ UNCHANGED <<pc, argv, opts, tpl, fs0, manifest, written, error, failedAt, warned,
                 install, log, exitCode>>
  /\ UNCHANGED <<detected, ctx, events>>

NextCleanup == CallCleanupProject

SpecCleanup == InitCleanup /\ [][NextCleanup]_vars

(***************************************************************************)
(* customizeFiles on Selections with one more feature flag                 *)
(***************************************************************************)
\* the answers the question a flag brings can get: the state management and
\* API client selects are asked only when their flag is ticked
FlagChoices(f, framework) ==
  IF f = "state-management" THEN StateManagementChoices(framework)
  ELSE IF f = "api-client" THEN ApiClientChoices
  ELSE {NoChoice}

\* the Selection o with flag f ticked as well, c the answer to its question
WithFlag(o, f, c) ==
  [o EXCEPT !.features = @ \cup {f},
            !.stateManagement = IF f = "state-management" THEN c ELSE @,
            !.apiClient = IF f = "api-client" THEN c ELSE @]

\* the Selection o with flag f not ticked, its question not asked
WithoutFlag(o, f) ==
  [o EXCEPT !.features = @ \ {f},
            !.stateManagement = IF f = "state-management" THEN NoChoice ELSE @,
            !.apiClient = IF f = "api-client" THEN NoChoice ELSE @]

FlagStylings == {"none", "tailwind"}
\* the flags these Selections draw from: all but component-lib, which no
\* method reads, and github-actions, which like docker only writes files
FlagFeatures == featureOptions \ {"component-lib", "github-actions"}

\* the Selections prompts can return with at most MaxFeatures flags, and
\* each of them with one more flag
FlagSelections ==
  UNION {
    {o} \cup UNION {{WithFlag(o, f, c) : c \in FlagChoices(f, o.framework)} :
                      f \in FlagFeatures \ o.features} :
      o \in {OptionsFromAnswers(NoArg, "demo-app", r) :
               r \in Answers(FlagFeatures, Frameworks, FlagStylings, {"npm"}, {TRUE})}}

FlagTemplateStores ==
  {[pkg |-> v, gitignore |-> FALSE, styles |-> FALSE] : v \in {"full", "partial"}}

InitFlags ==
  /\ pc = "customize"
  /\ opts \in FlagSelections
  /\ tpl \in FlagTemplateStores
  /\ argv = [projectName |-> NoArg, template |-> NoArg, styling |-> NoArg,
             packageManager |-> NoArg, skipInstall |-> FALSE, skipGit |-> FALSE,
             skipDev |-> FALSE]
  /\ fs0 = NoDir
  /\ fs = copyTemplateFiles(opts, (Root :> DirNode), tpl, "none").tree
  /\ manifest = NoManifest /\ written = DOMAIN fs /\ error = NoError /\ failedAt = "none"
  /\ warned = {} /\ install = "none" /\ cleanupResult = NoResult /\ cleanupCalls = 0
  /\ rmOutcome = NoRm /\ log = {} /\ exitCode = -1 /\ detected = NoDetection
  /\ ctx = NoArg /\ events = <<>>

NextFlags == CustomizeFiles

SpecFlags == InitFlags /\ [][NextFlags]_vars

(***************************************************************************)
(* wrapError on error messages                                             *)
(***************************************************************************)
\* the substrings categorizeError looks for, by the kind it returns for them
KnownSubstrings ==
  [DIR_EXISTS |-> {"eexist", "already exists"},
   TEMPLATE_NOT_FOUND |-> {"enoent", "not found", "no such file"},
   PERMISSION_DENIED |-> {"eacces", "permission denied"},
   DISK_FULL |-> {"enospc", "no space left", "disk full"},
   COPY_FAILED |-> {"copy", "failed to copy"},
   INSTALL_FAILED |-> {"install", "npm", "yarn", "pnpm"},
   GIT_FAILED |-> {"git"},
   PACKAGE_JSON_INVALID |-> {"package.json", "json"},
   CONFIG_FAILED |-> {"config", "configuration"}]

\* s.toUpperCase(), for the letters a to z
UpperChar(c) ==
  IF c \in LowerChars
  THEN UpperSeq[CHOOSE i \in DOMAIN LowerSeq : LowerSeq[i] = c]
  ELSE c
RECURSIVE toUpperCase(_)
toUpperCase(s) ==
  IF Len(s) = 0 THEN s
  ELSE UpperChar(CharAt(s, 1)) \o toUpperCase(SubSeq(s, 2, Len(s)))
Capitalised(s) ==
  IF Len(s) = 0 THEN s ELSE UpperChar(CharAt(s, 1)) \o SubSeq(s, 2, Len(s))

\* the error messages wrapError is checked on: one or two fragments, each a
\* known substring, a truncated one or unrelated text, in three letter cases
MessageFragments ==
  UNION {KnownSubstrings[k] : k \in DOMAIN KnownSubstrings}
    \cup {"", "some random error", "timeout", "eexis", "jso", "gi t", "unexpected token"}
ErrorMessages ==
  UNION {{m, toUpperCase(m), Capitalised(m)} :
           m \in MessageFragments \cup
                 {a \o ": " \o b : a \in MessageFragments \ {""}, b \in MessageFragments}}
WrapContexts == {NoArg, "", "Project generation failed"}

InitErrors ==
  /\ pc = "wrap"
  /\ error \in {PlainError(m) : m \in ErrorMessages}
  /\ argv = [projectName |-> NoArg, template |-> NoArg, styling |-> NoArg,
             packageManager |-> NoArg, skipInstall |-> FALSE, skipGit |-> FALSE,
             skipDev |-> FALSE]
  /\ opts = NoOpts
  /\ tpl = [pkg |-> "absent", gitignore |-> FALSE, styles |-> FALSE]
  /\ fs0 = NoDir /\ fs = NoDir
  /\ manifest = NoManifest /\ written = {} /\ failedAt = "none"
  /\ warned = {} /\ install = "none" /\ cleanupResult = NoResult /\ cleanupCalls = 0
  /\ rmOutcome = NoRm /\ log = {} /\ exitCode = -1 /\ detected = NoDetection
  /\ ctx = NoArg /\ events = <<>>

\* one call wrapError(error, context)
WrapError ==
  /\ pc = "wrap"
  /\ \E c \in WrapContexts :
       /\ ctx' = c
       /\ error' = wrapError(error, c)
  /\ pc' = "wrapped"
  /\ UNCHANGED <<argv, opts, tpl, fs, fs0, manifest, written, failedAt, warned, install,
                 cleanupResult, cleanupCalls, rmOutcome, log, exitCode, detected, events>>

NextErrors == WrapError

SpecErrors == InitErrors /\ [][NextErrors]_vars

(***************************************************************************)
(* orderPackageManagers on sets of available package managers              *)
(***************************************************************************)
\* the names a set of available package managers is drawn from: the four of
\* the preference order and three others
ManagerNames == {"bun", "pnpm", "yarn", "npm", "deno", "cnpm", "npx"}

InitManagers ==
  /\ pc = "detect"
  /\ detected \in {[available |-> S, ordered |-> <<>>] : S \in SUBSET ManagerNames}
  /\ argv = [projectName |-> NoArg, template |-> NoArg, styling |-> NoArg,
             packageManager |-> NoArg, skipInstall |-> FALSE, skipGit |-> FALSE,
             skipDev |-> FALSE]
  /\ opts = NoOpts
  /\ tpl = [pkg |-> "absent", gitignore |-> FALSE, styles |-> FALSE]
  /\ fs0 = NoDir /\ fs = NoDir
  /\ manifest = NoManifest /\ written = {} /\ error = NoError /\ failedAt = "none"
  /\ warned = {} /\ install = "none" /\ cleanupResult = NoResult /\ cleanupCalls = 0
  /\ rmOutcome = NoRm /\ log = {} /\ exitCode = -1
  /\ ctx = NoArg /\ events = <<>>

\* one call orderPackageManagers(availableManagers)
OrderPackageManagers ==
  /\ pc = "detect"
  /\ detected' = [detected EXCEPT !.ordered = orderPackageManagers(detected.available)]
  /\ pc' = "detected"
  /\ UNCHANGED <<argv, opts, tpl, fs, fs0, manifest, written, error, failedAt, warned,
                 install, cleanupResult, cleanupCalls, rmOutcome, log, exitCode, ctx, events>>

NextManagers == OrderPackageManagers

SpecManagers == InitManagers /\ [][NextManagers]_vars

(***************************************************************************)
(* main() on command lines with every template                             *)
(***************************************************************************)
\* command lines with the name and all of -t, -s and -p: every template the
\* CLI knows and the two names its --template help text gives
TemplateInvocations ==
  {[projectName |-> "demo-app", template |-> t, packageManager |-> pm, styling |-> s,
    skipInstall |-> si, skipGit |-> sg, skipDev |-> sd] :
      t \in templates \cup {"default", "minimal"}, s \in stylingOptions,
      pm \in {PACKAGE_MANAGER_ORDER[i] : i \in DOMAIN PACKAGE_MANAGER_ORDER},
      si \in BOOLEAN, sg \in BOOLEAN, sd \in BOOLEAN}

InitTemplates ==
  /\ pc = "main"
  /\ argv \in TemplateInvocations
  /\ opts = NoOpts
  /\ tpl = [pkg |-> "full", gitignore |-> FALSE, styles |-> FALSE]
  /\ fs0 = NoDir
  /\ fs = fs0
  /\ Quiet

NextTemplates == Main

SpecTemplates == InitTemplates /\ [][NextTemplates]_vars

(***************************************************************************)
(* copyTemplateFiles on every template                                     *)
(***************************************************************************)
\* the Selections of every framework, language and styling, from the flags
\* and from the prompts
StructureSelections ==
  {OptionsFromFlags([projectName |-> "demo-app", template |-> t, styling |-> s,
                     packageManager |-> "npm", skipInstall |-> FALSE, skipGit |-> FALSE,
                     skipDev |-> FALSE]) : t \in templates, s \in stylingOptions}
  \cup {OptionsFromAnswers(NoArg, "demo-app", r) :
          r \in Answers({}, Frameworks, stylingOptions, {"npm"}, {TRUE})}

\* the states generate() is in when copyTemplateFiles() is called
InitStructure ==
  /\ pc = "copy"
  /\ opts \in StructureSelections
  /\ tpl \in RunTemplateStores
  /\ argv = [projectName |-> NoArg, template |-> NoArg, styling |-> NoArg,
             packageManager |-> NoArg, skipInstall |-> FALSE, skipGit |-> FALSE,
             skipDev |-> FALSE]
  /\ fs0 = NoDir
  /\ fs = (Root :> DirNode)
  /\ manifest = NoManifest /\ written = {Root} /\ error = NoError /\ failedAt = "none"
  /\ warned = {} /\ install = "none" /\ cleanupResult = NoResult /\ cleanupCalls = 0
  /\ rmOutcome = NoRm /\ log = {} /\ exitCode = -1 /\ detected = NoDetection
  /\ ctx = NoArg /\ events = <<>>

NextStructure == CopyTemplateFiles

SpecStructure == InitStructure /\ [][NextStructure]_vars

(***************************************************************************)
(* installDependencies under every sequence of child process events        *)
(***************************************************************************)
\* the exit codes 'close' reports; null for a child ended by a signal
CloseCodes == {"0", "1", "null"}

\* the states generate() is in when installDependencies() is called
InitInstall ==
  /\ pc = "install"
  /\ opts \in {OptionsFromFlags([projectName |-> "demo-app", template |-> "react-ts",
                                 styling |-> "none", packageManager |-> pm,
                                 skipInstall |-> FALSE, skipGit |-> TRUE,
                                 skipDev |-> TRUE]) : pm \in {"npm", "bun"}}
  /\ tpl = [pkg |-> "full", gitignore |-> FALSE, styles |-> FALSE]
  /\ argv = [projectName |-> NoArg, template |-> NoArg, styling |-> NoArg,
             packageManager |-> NoArg, skipInstall |-> FALSE, skipGit |-> FALSE,
             skipDev |-> FALSE]
  /\ fs0 = NoDir
  /\ fs = copyTemplateFiles(opts, (Root :> DirNode), tpl, "none").tree
  /\ manifest = NoManifest /\ written = DOMAIN fs /\ error = NoError /\ failedAt = "none"
  /\ warned = {} /\ install = "none" /\ cleanupResult = NoResult /\ cleanupCalls = 0
  /\ rmOutcome = NoRm /\ log = {} /\ exitCode = -1 /\ detected = NoDetection
  /\ ctx = NoArg /\ events = <<>>

\* the child emits 'error'; error holds the reason of the rejection
EmitError ==
  /\ pc = "installing"
  /\ Len(events) < MaxEvents
  /\ installProcessOnError
  /\ error' = IF install = "pending"
              THEN PlainError("spawn " \o opts.packageManager \o " ENOENT") ELSE error
  /\ UNCHANGED <<pc, argv, opts, tpl, fs, fs0, manifest, written, failedAt, warned,
                 cleanupResult, cleanupCalls, rmOutcome, exitCode, detected, ctx>>

\* the child emits 'close'
EmitClose ==
  /\ pc = "installing"
  /\ Len(events) < MaxEvents
  /\ \E code \in CloseCodes :
       /\ installProcessOnClose(code)
       /\ error' = IF install = "pending" /\ code # "0"
                   THEN PlainError("Dependency installation failed with code " \o code)
                   ELSE error
  /\ UNCHANGED <<pc, argv, opts, tpl, fs, fs0, manifest, written, failedAt, warned,
                 cleanupResult, cleanupCalls, rmOutcome, exitCode, detected, ctx>>

NextInstall == InstallDependencies \/ EmitError \/ EmitClose

SpecInstall == InitInstall /\ [][NextInstall]_vars

(***************************************************************************)
(* Properties                                                              *)
(***************************************************************************)
TrivialSuccess == [success |-> TRUE, existed |-> FALSE, error |-> NoErrorText]

\* C1: when copyTemplateFiles or customizeFiles throws after this run created
\* the target directory, the run ends with exit status 1 having called
\* cleanup once on the existing directory, and when the removal succeeded
\* nothing is left at the target path.
C1_FailureAfterCreationIsCleanedUp ==
  (pc = "exited" /\ failedAt \in {"copy", "customize"}) =>
    /\ Root \in written
    /\ exitCode = 1
    /\ cleanupCalls = 1
    /\ cleanupResult.existed
    /\ cleanupResult.success => fs = NoDir

C1_Witness ==
  /\ pc = "exited" /\ failedAt = "customize" /\ error.code = "PACKAGE_JSON_INVALID"
  /\ cleanupCalls = 1 /\ cleanupResult.success /\ cleanupResult.existed
  /\ fs = NoDir /\ exitCode = 1

\* C2 (as stated): when the target path exists at the start, the run fails
\* with DIR_EXISTS, nothing is written, and the pre-existing directory and its
\* contents are unchanged at the end of the run.
C2_ExistingDirectoryIsLeftAlone ==
  (pc = "exited" /\ fs0 # NoDir /\ opts # NoOpts) =>
    /\ error.code = "DIR_EXISTS"
    /\ written = {}
    /\ fs = fs0

\* C3 (as stated): when the install step fails, the project directory the
\* run created remains and the manual install command has been suggested.
C3_InstallFailureKeepsProject ==
  (pc = "exited" /\ failedAt = "install") =>
    /\ "manual-install" \in log
    /\ existsSync(fs, Root)

\* C4: a failure of git init, git add or git commit is reported and is never
\* what sends the run to the catch block: the run goes on to the install and
\* completion steps, and unless a later step fails the project directory
\* remains, no cleanup is called and the run ends with status 0.
C4_GitFailureDoesNotRollBack ==
  "git" \in warned =>
    /\ "git-failed" \in log
    /\ pc \in {"install", "installing", "complete", "dev", "serving", "catch", "exited"}
    /\ failedAt \in {"none", "install", "dev"}
    /\ failedAt = "none" =>
         /\ existsSync(fs, Root)
         /\ cleanupCalls = 0
         /\ pc = "exited" => ("completion" \in log /\ exitCode = 0)

C4_Witness ==
  /\ "git" \in warned /\ pc = "exited" /\ exitCode = 0 /\ install = "resolved"
  /\ existsSync(fs, Root) /\ ~existsSync(fs, <<".git">>) /\ "completion" \in log

C6_CleanupNeverHidesFailure ==
  cleanupCalls >= 1 =>
    /\ cleanupResult.success => (~existsSync(fs, Root) /\ cleanupResult.error = NoErrorText)
    /\ (existsSync(fs, Root) \/ rmOutcome.kind = "throws") =>
         /\ ~cleanupResult.success
         /\ cleanupResult.existed
         /\ cleanupResult.error \notin {"", NoErrorText}
         /\ rmOutcome.kind = "throws" => cleanupResult.error = rmOutcome.message
         /\ {"cleanup-failed", "cleanup-error", "manual-remove"} \subseteq log

C6_Witness ==
  /\ pc = "exited" /\ cleanupCalls = 1 /\ rmOutcome.kind = "kept" /\ existsSync(fs, Root)
  /\ ~cleanupResult.success /\ "manual-remove" \in log

\* C7 (as stated): with an invalid project name generation never starts: no
\* directory is created, whether the name came from the command line or
\* from the prompt.
C7_InvalidNameNeverGenerates ==
  Root \in written => validateName(opts.name)

\* C8: the package.json written by a customization that completed has the
\* Selection's name, the template's version or "1.0.0" when the template has
\* none, type "module", and objects for scripts, dependencies and
\* devDependencies; the text written parses back to the object built.
TemplateManifest == JSONparse(TemplatePackageText(tpl.pkg))

C8_WrittenManifestIsValid ==
  (pc \notin {"main", "prompt", "generate", "copy", "customize"} /\ failedAt = "none"
   /\ manifest # NoManifest) =>
    /\ Get(manifest, "name") = Str(opts.name)
    /\ Get(manifest, "version") = OrElse(Get(TemplateManifest, "version"), Str("1.0.0"))
    /\ Get(manifest, "type") = Str("module")
    /\ IsObject(Get(manifest, "scripts"))
    /\ IsObject(Get(manifest, "dependencies"))
    /\ IsObject(Get(manifest, "devDependencies"))
    /\ JSONparse(JSONstringify(manifest)) = manifest
    /\ pc # "exited" => JSONparse(fs[PackageJsonPath].text) = manifest

C8_Witness ==
  /\ pc \in {"git", "install", "complete"} /\ manifest # NoManifest
  /\ tpl.pkg = "own-version" /\ Get(manifest, "version") = Str("0.3.0")
  /\ opts.features # {} /\ opts.styling = "tailwind"
  /\ JSONparse(fs[PackageJsonPath].text) = manifest

\* C9 (as stated): the scripts of every written manifest include dev, build
\* and preview.
C9_ScriptsIncludeDevBuildPreview ==
  (pc \notin {"main", "prompt", "generate", "copy", "customize"} /\ failedAt = "none"
   /\ manifest # NoManifest) =>
    \A k \in {"dev", "build", "preview"} :
      IsObject(Get(manifest, "scripts")) /\ Get(Get(manifest, "scripts"), k) # Undefined

\* the manifest invariants: the six required fields present, name a
\* non-blank string, version a string, type "module", the three maps objects
ManifestInvariants(m) ==
  /\ \A f \in {"name", "version", "type", "scripts", "dependencies", "devDependencies"} :
       Get(m, f) # Undefined
  /\ IsString(Get(m, "name")) /\ ~IsBlank(Get(m, "name").s)
  /\ IsString(Get(m, "version"))
  /\ Get(m, "type") = Str("module")
  /\ IsObject(Get(m, "scripts"))
  /\ IsObject(Get(m, "dependencies"))
  /\ IsObject(Get(m, "devDependencies"))

\* C10: a built manifest that violates a manifest invariant is not written:
\* package.json keeps the template's text, customization fails with
\* PACKAGE_JSON_INVALID, and the run ends with cleanup called and status 1;
\* package.json is rewritten only with a manifest that satisfies them.
C10_InvalidManifestIsNeverWritten ==
  /\ (manifest # NoManifest /\ ~ManifestInvariants(manifest)) =>
       /\ failedAt = "customize"
       /\ error.code = "PACKAGE_JSON_INVALID"
       /\ pc \in {"catch", "exited"}
       /\ pc = "catch" => fs[PackageJsonPath].text = TemplatePackageText(tpl.pkg)
       /\ pc = "exited" => (cleanupCalls = 1 /\ exitCode = 1)
  /\ (manifest # NoManifest /\ existsSync(fs, PackageJsonPath)
      /\ fs[PackageJsonPath].text # TemplatePackageText(tpl.pkg)) =>
       /\ ManifestInvariants(manifest)
       /\ fs[PackageJsonPath].text = JSONstringify(manifest)

C10_Witness ==
  /\ pc = "exited" /\ manifest # NoManifest /\ ~ManifestInvariants(manifest)
  /\ tpl.pkg = "numeric-version" /\ error.code = "PACKAGE_JSON_INVALID"
  /\ cleanupCalls = 1 /\ exitCode = 1

\* the assignments flag f alone contributes to the manifest of Selection o:
\* its block of addFeatureDependencies, or the helper that block calls
FlagAssignments(o, f) ==
  FeatureAssignments([o EXCEPT !.features = {f}]) \o
  When(f = "i18n", I18nAssignments(o)) \o
  When(f = "state-management", StateManagementAssignments(o)) \o
  When(f = "api-client", ApiClientAssignments(o))

\* the orders in which the flags of set F can be listed
Listings(F) ==
  {s \in UNION {[1..n -> F] : n \in {Cardinality(F)}} :
     \A i, j \in DOMAIN s : i # j => s[i] # s[j]}

RECURSIVE ListedAssignments(_, _)
ListedAssignments(o, listing) ==
  IF listing = <<>> THEN <<>>
  ELSE FlagAssignments(o, Head(listing)) \o ListedAssignments(o, Tail(listing))

\* the Selection o with no flag ticked
WithoutFlags(o) ==
  [o EXCEPT !.features = {}, !.stateManagement = NoChoice, !.apiClient = NoChoice]

CustomizationCompleted ==
  pc \notin {"main", "prompt", "generate", "copy", "customize"} /\ failedAt = "none"
  /\ manifest # NoManifest

\* C11: the manifest written for a feature set with flag f differs from the
\* manifest for the same Selection without f only in the dependency and
\* script entries f contributes, and it is the manifest for no flags with the
\* contributions of the ticked flags put in, in whatever order they are listed.
C11_FlagsContributeIndependently ==
  CustomizationCompleted =>
    /\ \A f \in opts.features :
         manifest = Perform(BuildPackageJson(WithoutFlag(opts, f), TemplateManifest),
                            FlagAssignments(opts, f))
    /\ \A listing \in Listings(opts.features) :
         manifest = Perform(BuildPackageJson(WithoutFlags(opts), TemplateManifest),
                            ListedAssignments(opts, listing))

C11_Witness ==
  /\ CustomizationCompleted
  /\ opts.features = {"linting", "husky"} /\ tpl.pkg = "partial"
  /\ Get(Get(manifest, "scripts"), "prepare") = Str("husky install")
  /\ Get(Get(manifest, "scripts"), "lint") = Str("biome lint .")
  /\ manifest # BuildPackageJson(WithoutFlag(opts, "husky"), TemplateManifest)

\* the assignments of a Selection in the sequence language tooling, framework
\* runtime, styling, feature flags, state management, API client
LanguageToolingAssignments(o) == When(o.typescript, <<Head(StylingAssignments(o))>>)
StylingOnlyAssignments(o) ==
  IF o.typescript THEN Tail(StylingAssignments(o)) ELSE StylingAssignments(o)
SequencedAssignments(o) ==
  LanguageToolingAssignments(o) \o FrameworkAssignments(o) \o StylingOnlyAssignments(o) \o
  FeatureAssignments(o) \o When("i18n" \in o.features, I18nAssignments(o)) \o
  When(Given(o.stateManagement), StateManagementAssignments(o)) \o
  When(Given(o.apiClient), ApiClientAssignments(o))

ManifestSections == {"dependencies", "devDependencies", "scripts"}
\* the assignments of a sequence to one key of one section
AssignmentsTo(assignments, section, key) ==
  SelectSeq(assignments, LAMBDA a : a.section = section /\ a.key = key)
AssignedKeys(assignments, section) ==
  {assignments[i].key : i \in {j \in DOMAIN assignments : assignments[j].section = section}}
\* a section of the template's manifest, empty when the template has none
TemplateSection(section) == OrElse(Get(TemplateManifest, section), EmptyObj)

RegistryRanges == {VersionsTable[key] : key \in DOMAIN VersionsTable}

\* the dependency assignments made for the framework, styling, feature,
\* state management and API client choices of a Selection
ChoiceDependencyAssignments(o) ==
  SelectSeq(FrameworkAssignments(o) \o StylingOnlyAssignments(o) \o
            FeatureAssignments(o) \o When("i18n" \in o.features, I18nAssignments(o)) \o
            When(Given(o.stateManagement), StateManagementAssignments(o)) \o
            When(Given(o.apiClient), ApiClientAssignments(o)),
            LAMBDA a : a.section \in {"dependencies", "devDependencies"})

\* C13 (as stated): every dependency range the builder adds for a framework,
\* styling, feature, state management or API client choice is a range of the
\* Version Registry, and the written manifest holds it in place of the
\* template's range for that package.
C13_AddedRangesComeFromRegistry ==
  CustomizationCompleted =>
    \A i \in DOMAIN ChoiceDependencyAssignments(opts) :
      LET a == ChoiceDependencyAssignments(opts)[i] IN
      /\ a.value \in RegistryRanges
      /\ Get(Get(manifest, a.section), a.key) = Str(a.value)

\* the kinds one of whose known substrings occurs in a message, letter case
\* ignored
KindsOccurring(msg) ==
  {k \in DOMAIN KnownSubstrings :
     \E sub \in KnownSubstrings[k] : Includes(toLowerCase(msg), sub)}

\* C14: categorizeError returns one kind of the taxonomy for every message:
\* a kind one of whose known substrings occurs in the message, letter case
\* ignored, and UNKNOWN exactly when no known substring occurs.
C14_CategorizeErrorIsTotal ==
  pc = "wrapped" =>
    /\ error.code \in ERROR_CODES
    /\ error.code = categorizeError(toUpperCase(error.cause))
    /\ error.code = categorizeError(toLowerCase(error.cause))
    /\ (error.code = "UNKNOWN") = (KindsOccurring(error.cause) = {})
    /\ error.code # "UNKNOWN" => error.code \in KindsOccurring(error.cause)

C14_Witness ==
  /\ pc = "wrapped"
  /\ error.cause = "ENOSPC: JSON"
  /\ error.code = "DISK_FULL"
  /\ KindsOccurring(error.cause) = {"DISK_FULL", "PACKAGE_JSON_INVALID"}

\* the position of a manager in the preference order bun, pnpm, yarn, npm
PreferenceRank(pm) == CHOOSE i \in 1..4 : <<"bun", "pnpm", "yarn", "npm">>[i] = pm
KnownManagers == {"bun", "pnpm", "yarn", "npm"}

\* C15: orderPackageManagers returns the available managers among bun, pnpm,
\* yarn and npm, each once, in that order of preference, none that is not
\* available, and the list [npm] when none of the four is available.
C15_ManagersInPreferenceOrder ==
  pc = "detected" =>
    LET ordered == detected.ordered
        known == detected.available \cap KnownManagers IN
    IF known = {} THEN ordered = <<"npm">>
    ELSE /\ {ordered[i] : i \in DOMAIN ordered} = known
         /\ Len(ordered) = Cardinality(known)
         /\ \A i, j \in DOMAIN ordered :
              i < j => PreferenceRank(ordered[i]) < PreferenceRank(ordered[j])

C15_Witness ==
  /\ pc = "detected"
  /\ detected.available = {"npm", "deno", "bun", "yarn"}
  /\ detected.ordered = <<"bun", "yarn", "npm">>

\* C16 (as stated): on a command line with --skip-install the installer is
\* never started and no node_modules appears, and on one with --skip-git git
\* is never run and no .git appears, whatever the other flags are.
C16_SkipFlagsSuppressSteps ==
  /\ argv.skipInstall =>
       (install = "none" /\ ~existsSync(fs, <<"node_modules">>))
  /\ argv.skipGit =>
       (log \cap {"git-initialized", "git-failed"} = {} /\ ~existsSync(fs, <<".git">>))

\* C17 (as stated): once main() has the ProjectOptions, a choice the command
\* line did not supply has its fixed default: template react-ts, styling
\* none, package manager npm, and install, git init and dev server on.
C17_UnsuppliedChoicesTakeDefaults ==
  (pc \notin {"main", "prompt"} /\ opts # NoOpts) =>
    /\ ~Given(argv.template) => opts.template = "react-ts"
    /\ ~Given(argv.styling) => opts.styling = "none"
    /\ ~Given(argv.packageManager) => opts.packageManager = "npm"
    /\ ~argv.skipInstall => opts.installDeps
    /\ ~argv.skipGit => opts.initGit
    /\ ~argv.skipDev => opts.runDev

\* C18: for a command line with --template f-l, f a framework and l ts or js,
\* and the name, styling and package manager given, main() builds options
\* with framework f and typescript exactly when l is ts, so the template is
\* the name made of the options' own framework and language.
C18_TemplateDeterminesFrameworkAndLanguage ==
  pc = "generate" =>
    \A f \in Frameworks, l \in {"ts", "js"} :
      argv.template = f \o "-" \o l =>
        /\ opts.framework = f
        /\ opts.typescript = (l = "ts")
        /\ opts.template = TemplateName(opts.framework, opts.typescript)

C18_Witness ==
  /\ pc = "generate" /\ argv.template = "solid-js"
  /\ opts.framework = "solid" /\ ~opts.typescript /\ opts.template = "solid-js"
  /\ argv.skipGit /\ opts.styling = "unocss"

\* the tree customizeFiles() starts from in SpecManifest and SpecFlags
CopiedTree == copyTemplateFiles(opts, (Root :> DirNode), tpl, "none").tree
\* the compilerOptions of the tsconfig.json of a tree
CompilerOptions(tree) == Get(JSONparse(tree[TsconfigPath].text), "compilerOptions")
StrictTsOptions == {"noUncheckedIndexedAccess", "exactOptionalPropertyTypes"}

LineEnds(text) == {i \in 1..Len(text) : SubSeq(text, i, i) = "\n"}
Lines(text) ==
  {SubSeq(text,
          IF \E j \in LineEnds(text) : j < i
          THEN 1 + CHOOSE j \in LineEnds(text) :
                     j < i /\ \A k \in LineEnds(text) : k < i => k <= j
          ELSE 1,
          i - 1) : i \in LineEnds(text)}
gitignoreLines == Lines(gitignoreContent)

\* what the generated .gitignore has to list: dependency directories, build
\* output, environment files, OS and editor artifacts, log files
RequiredIgnorePatterns ==
  {"node_modules/", "dist/", "build/", ".env", ".env*.local", ".DS_Store", ".vscode/",
   ".idea/", "npm-debug.log*", "yarn-debug.log*", "yarn-error.log*", "pnpm-debug.log*"}

\* the run is past a copyTemplateFiles() that returned, and before any cleanup
AfterTemplateCopy ==
  pc \in {"customize", "git", "install", "installing", "complete", "dev", "serving"}

\* C20: after the template copy the project has one .gitignore, at its
\* root: the template's own, untouched for the rest of the run, when the
\* template brought one, and otherwise the generated one, which lists
\* node_modules, dist, build, the .env files, .DS_Store, .vscode, .idea and
\* the package managers' debug logs.
C20_GitignoreGeneratedOnce ==
  AfterTemplateCopy =>
    /\ existsSync(fs, GitignorePath)
    /\ \A p \in DOMAIN fs : (p # <<>> /\ p[Len(p)] = ".gitignore") => p = GitignorePath
    /\ IF existsSync(Overlay(TemplateTree(opts.template, tpl), StylesTree(opts.styling, tpl)),
                     GitignorePath)
       THEN fs[GitignorePath].tag = TemplateTree(opts.template, tpl)[GitignorePath].tag
       ELSE /\ fs[GitignorePath].tag = "text"
            /\ fs[GitignorePath].text = gitignoreContent
            /\ RequiredIgnorePatterns \subseteq gitignoreLines

C20_Witness ==
  /\ pc = "git" /\ ~tpl.gitignore
  /\ fs[GitignorePath].tag = "text"
  /\ "node_modules/" \in Lines(fs[GitignorePath].text)

\* C21 (as stated): after the target directory was created, a template
\* name without a template directory fails the run with TEMPLATE_NOT_FOUND
\* and any other error thrown while copying fails it with COPY_FAILED, and in
\* both cases the created directory no longer exists afterwards.
C21_CopyFailureLeavesNoDirectory ==
  (pc = "exited" /\ failedAt = "copy") =>
    /\ error.code = IF opts.template \in templates THEN "COPY_FAILED"
                    ELSE "TEMPLATE_NOT_FOUND"
    /\ ~existsSync(fs, Root)

\* C21 (amended): a failure of the template copy happens after this run
\* created the directory, has kind TEMPLATE_NOT_FOUND for a template name
\* without a template directory and COPY_FAILED otherwise, and sends the run
\* to one cleanup and exit status 1; the directory is gone exactly when the
\* cleanup reports success, and otherwise a manual removal is asked for.
C21_CopyFailureKindAndCleanup ==
  /\ (pc = "catch" /\ failedAt = "copy") =>
       /\ Root \in written /\ existsSync(fs, Root)
       /\ error.class = "ProjectGenerationError"
  /\ (failedAt = "copy") =>
       /\ error.code = IF opts.template \in templates THEN "COPY_FAILED"
                       ELSE "TEMPLATE_NOT_FOUND"
       /\ ~error.recoverable
  /\ (pc = "exited" /\ failedAt = "copy") =>
       /\ exitCode = 1
       /\ cleanupCalls = 1
       /\ cleanupResult.existed
       /\ cleanupResult.success <=> ~existsSync(fs, Root)
       /\ ~cleanupResult.success => "manual-remove" \in log

C21_Witness ==
  /\ pc = "exited" /\ failedAt = "copy" /\ error.code = "COPY_FAILED"
  /\ opts.template = "react-ts" /\ <<"index.html">> \in written
  /\ cleanupResult.success /\ fs = NoDir /\ exitCode = 1

\* the packages the state management and the API client blocks can assign
StateManagementPackages ==
  UNION {{StateManagementAssignments([stateManagement |-> c])[i].key :
            i \in DOMAIN StateManagementAssignments([stateManagement |-> c])} :
          c \in UNION {StateManagementChoices(fw) : fw \in Frameworks}}
ApiClientPackages ==
  UNION {UNION {{ApiClientAssignments([apiClient |-> c, framework |-> fw])[i].key :
                   i \in DOMAIN ApiClientAssignments([apiClient |-> c, framework |-> fw])} :
                 c \in ApiClientChoices} : fw \in Frameworks}
\* pkg[section] has an entry for key that the template did not ship
Added(section, key) ==
  /\ Get(Get(manifest, section), key) # Undefined
  /\ Get(TemplateSection(section), key) = Undefined

\* C22: in every Selection handed to the generator, from the prompts or from
\* the flags, a state management choice comes with the state-management flag
\* and an API client choice with the api-client flag, and the manifest gets
\* a state management or an API client package only when that flag is set.
C22_ChoicesComeWithTheirFlag ==
  /\ Given(opts.stateManagement) => "state-management" \in opts.features
  /\ Given(opts.apiClient) => "api-client" \in opts.features
  /\ CustomizationCompleted =>
       LET template == TemplateManifest IN
       \A section \in {"dependencies", "devDependencies"} :
         LET shipped == OrElse(Get(template, section), EmptyObj)
             got == Get(manifest, section)
             added(key) == Get(got, key) # Undefined /\ Get(shipped, key) = Undefined IN
         /\ \A key \in StateManagementPackages :
              added(key) => "state-management" \in opts.features
         /\ \A key \in ApiClientPackages :
              added(key) => "api-client" \in opts.features

C22_Witness ==
  /\ CustomizationCompleted
  /\ opts.features = {"state-management"} /\ opts.stateManagement = "redux-toolkit"
  /\ opts.apiClient = NoChoice
  /\ Added("dependencies", "react-redux") /\ ~Added("dependencies", "axios")

\* C23 (as stated): any failure while writing the manifest or an auxiliary
\* document during file customization (package.json, the styling configs,
\* the vite config update, the tsconfig strict update) sends the run to the
\* catch block with the customization step failed, and cleanup is called
\* before the run ends.
C23_CustomizationWriteFailureFails ==
  "config" \in warned =>
    /\ failedAt = "customize"
    /\ pc \in {"catch", "exited"}
    /\ pc = "exited" => (cleanupCalls = 1 /\ exitCode = 1)

\* C24: wrapError(e, ctx) returns a ProjectGenerationError whose cause is e,
\* whose code is categorizeError(e), whose message is "ctx: e.message" for a
\* non-empty ctx and e.message without one, whose hint is the explanation
\* ERROR_MESSAGES holds for that code, and which is recoverable exactly when
\* the code is INSTALL_FAILED or GIT_FAILED.
C24_WrapErrorFields ==
  [][(pc = "wrap" /\ pc' = "wrapped") =>
       /\ error'.class = "ProjectGenerationError"
       /\ error'.cause = error.message
       /\ error'.code = categorizeError(error.message)
       /\ error'.code \in ERROR_CODES
       /\ error'.message = IF ctx' \in {NoArg, ""} THEN error.message
                           ELSE ctx' \o ": " \o error.message
       /\ error'.hint = ERROR_MESSAGES[error'.code]
       /\ error'.recoverable = (error'.code \in {"INSTALL_FAILED", "GIT_FAILED"})
    ]_vars

C24_Witness ==
  /\ pc = "wrapped" /\ ctx = "Project generation failed"
  /\ error.cause = "git: json" /\ error.code = "GIT_FAILED" /\ error.recoverable
  /\ error.message = "Project generation failed: git: json"
  /\ error.hint = ERROR_MESSAGES["GIT_FAILED"]

\* the positions of generate(), in the order of its statements
StepOrder == <<"generate", "copy", "customize", "git", "install", "installing",
               "complete", "dev", "serving">>
IsStep(p) == \E i \in DOMAIN StepOrder : StepOrder[i] = p
\* 0 for the positions of main() before generate()
StepIndex(p) == IF IsStep(p) THEN CHOOSE i \in DOMAIN StepOrder : StepOrder[i] = p ELSE 0
\* the steps every run takes: validateProjectDir, copyTemplateFiles,
\* customizeFiles and showCompletionMessage
MandatorySteps == {"generate", "copy", "customize", "complete"}

\* C25: the steps of a run occur in the order directory creation, template
\* copy, file customization, git init when requested, dependency install
\* when requested, completion; a step starts only when the step before it
\* returned without throwing and no mandatory step before it was left out,
\* and after a failure only the catch block and the exit follow.
C25_StepsInOrder ==
  [][/\ (pc' # pc /\ IsStep(pc')) =>
          /\ failedAt = "none" /\ failedAt' = "none"
          /\ pc \notin {"catch", "exited"}
          /\ StepIndex(pc) < StepIndex(pc')
          /\ \A m \in MandatorySteps :
               StepIndex(m) < StepIndex(pc') => StepIndex(m) <= StepIndex(pc)
          /\ pc' = "git" => opts.initGit
          /\ pc' \in {"install", "installing"} => opts.installDeps
          /\ (pc = "customize" /\ opts.initGit) => pc' = "git"
          /\ (pc \in {"customize", "git"} /\ opts.installDeps) => pc' \in {"git", "install"}
     /\ failedAt # "none" => (pc \in {"catch", "exited"} /\ pc' \in {"catch", "exited"}
                              /\ failedAt' = failedAt)
     /\ pc = "catch" => pc' = "exited"
     /\ pc = "exited" => pc' = "exited"
    ]_vars

C25_Witness ==
  /\ pc = "exited" /\ exitCode = 0 /\ failedAt = "none"
  /\ opts.initGit /\ opts.installDeps /\ ~opts.runDev
  /\ {"git-initialized", "installed", "completion"} \subseteq log
  /\ existsSync(fs, PackageJsonPath) /\ existsSync(fs, <<".git">>)
  /\ existsSync(fs, <<"node_modules">>)

\* C26: the install child process is awaited: in a run that installs, the
\* completion message and the dev server come only after the installer
\* closed with exit code 0, while the promise is pending the run stays at the
\* await, and the dev server is never started in a run that does not install.
C26_InstallIsAwaited ==
  /\ install = "pending" => pc = "installing"
  /\ (opts.installDeps /\ (pc \in {"complete", "dev", "serving"} \/ "completion" \in log)) =>
       /\ install = "resolved"
       /\ events = <<CloseEvent("0")>>
       /\ "installed" \in log
  /\ (pc \in {"dev", "serving"} \/ "dev-server-started" \in log) =>
       /\ opts.installDeps /\ opts.runDev
       /\ install = "resolved"
       /\ "completion" \in log
  /\ (opts # NoOpts /\ ~opts.installDeps) =>
       /\ install = "none" /\ events = <<>>
       /\ pc \notin {"install", "installing", "dev", "serving"}

C26_Witness ==
  /\ pc = "serving" /\ install = "resolved" /\ events = <<CloseEvent("0")>>
  /\ {"installed", "completion", "dev-server-started"} \subseteq log
  /\ opts.installDeps /\ opts.runDev

\* the subdirectories of src/ each framework is to have
FrameworkSubdirectories ==
  [react |-> {"components", "hooks", "utils"},
   preact |-> {"components", "hooks", "utils"},
   solid |-> {"components", "hooks", "utils"},
   vue |-> {"components", "composables", "utils"},
   svelte |-> {"lib", "components", "utils"},
   vanilla |-> {"utils"}]
\* what copySync brought from the template store
Shipped == Overlay(TemplateTree(opts.template, tpl), StylesTree(opts.styling, tpl))
TemplateCopied == pc = "customize" /\ failedAt = "none"

\* C27: after the template copy the project has src/ and the subdirectories
\* of its framework, and types for a typed Selection; types, .gitkeep files
\* and every other entry below src/ that the template did not ship exist
\* only as a subdirectory the generator had to create, holding .gitkeep
\* alone, and what the template shipped below src/ is as it was shipped.
C27_ProjectStructure ==
  TemplateCopied =>
    /\ existsSync(fs, <<"src">>) /\ fs[<<"src">>] = DirNode
    /\ \A d \in FrameworkSubdirectories[opts.framework] :
         existsSync(fs, <<"src", d>>) /\ fs[<<"src", d>>] = DirNode
    /\ opts.typescript => existsSync(fs, <<"src", "types">>)
    /\ (existsSync(fs, <<"src", "types">>) /\ ~existsSync(Shipped, <<"src", "types">>)) =>
         opts.typescript
    /\ \A p \in DOMAIN fs :
         (Len(p) >= 1 /\ p[1] = "src") =>
           IF existsSync(Shipped, p) THEN fs[p] = Shipped[p]
           ELSE /\ Len(p) \in {2, 3}
                /\ p[2] \in FrameworkSubdirectories[opts.framework] \cup {"types"}
                /\ ~existsSync(Shipped, <<"src", p[2]>>)
                /\ Len(p) = 2 => (fs[p] = DirNode /\ existsSync(fs, <<"src", p[2], ".gitkeep">>))
                /\ Len(p) = 3 => p[3] = ".gitkeep"

C27_Witness ==
  /\ TemplateCopied /\ opts.framework = "vue" /\ opts.typescript
  /\ existsSync(fs, <<"src", "composables", ".gitkeep">>)
  /\ existsSync(fs, <<"src", "types", ".gitkeep">>)
  /\ existsSync(fs, <<"src", "components", "ViantLogo">>)
  /\ ~existsSync(fs, <<"src", "components", ".gitkeep">>)

\* C28 (as stated): once the completion message has been shown, the
\* cleanup of the run never removes the project directory, whatever the
\* dev server does afterwards (closing with 0, null or another code, or
\* failing to spawn).
C28_CompletedProjectIsKept ==
  "completion" \in log =>
    /\ existsSync(fs, Root)
    /\ cleanupCalls = 0

Settled == install \in {"resolved", "rejected"}

\* C29: installDependencies settles exactly once whatever events the child
\* emits and in whatever order: the first event settles the promise, which
\* is resolved exactly when that event is close with code 0 and rejected
\* otherwise, and no later event changes the outcome or its reason.
C29_InstallSettlesOnce ==
  [][/\ events' # events =>
          /\ Settled'
          /\ (install' = "resolved") = (events'[1] = CloseEvent("0"))
          /\ (install' = "resolved") = (error' = NoError)
     /\ Settled => (install' = install /\ error' = error)
     /\ install' # install => (install \in {"none", "pending"} /\ install' # "none")
    ]_vars

C29_Witness ==
  /\ install = "resolved" /\ error = NoError
  /\ events = <<CloseEvent("0"), ErrorEvent, CloseEvent("1")>>
  /\ {"installed", "install-failed"} \subseteq log

\* the order in which categorizeError is to test the kinds
KindOrder == <<"DIR_EXISTS", "TEMPLATE_NOT_FOUND", "PERMISSION_DENIED", "DISK_FULL",
               "COPY_FAILED", "INSTALL_FAILED", "GIT_FAILED", "PACKAGE_JSON_INVALID",
               "CONFIG_FAILED">>
\* the earliest kind of KindOrder among those given
Earliest(kinds) ==
  KindOrder[CHOOSE i \in DOMAIN KindOrder :
              KindOrder[i] \in kinds /\ \A j \in 1..(i - 1) : KindOrder[j] \notin kinds]

\* C30: categorizeError returns the first kind, in the order DIR_EXISTS,
\* TEMPLATE_NOT_FOUND, PERMISSION_DENIED, DISK_FULL, COPY_FAILED,
\* INSTALL_FAILED, GIT_FAILED, PACKAGE_JSON_INVALID, CONFIG_FAILED, one of
\* whose substrings occurs in the message, wherever in the message the
\* substrings stand, and never INVALID_NAME.
C30_FirstMatchingKindWins ==
  pc = "wrapped" =>
    /\ error.code # "INVALID_NAME"
    /\ KindsOccurring(error.cause) # {} => error.code = Earliest(KindsOccurring(error.cause))
    /\ categorizeError(error.cause) = error.code

C30_Witness ==
  /\ pc = "wrapped"
  /\ error.cause = "config: copy"
  /\ KindsOccurring(error.cause) = {"COPY_FAILED", "CONFIG_FAILED"}
  /\ error.code = "COPY_FAILED"

====
